---- MODULE Spec2Model ----
(***************************************************************************)
(* OkSentinel: chunked asset engine (oksentinel/sdk.py, asset/asset.py,    *)
(* crypto/*.py) and the streaming front end (webapp/api_server.py,         *)
(* webapp/chunk_cache.py, webapp/prefetch_manager.py).                     *)
(*                                                                         *)
(* Cryptography is modelled symbolically.  An AES-CTR ciphertext is the    *)
(* term [key, nonce, body]: body is what the right key and nonce decrypt   *)
(* it to, so flipping a ciphertext byte flips the same plaintext byte (CTR *)
(* is malleable); any other key or nonce decrypts it to garbage.  SHA-256  *)
(* is collision free, RSA-OAEP rejects a modified or foreign blob.         *)
(* Time is counted in ticks, TicksPerSecond ticks to the second, so that   *)
(* int(time.time()) really truncates.                                      *)
(***************************************************************************)
EXTENDS Integers, Sequences, FiniteSets, TLC

\* ------------------------------------------------------------------ bounds
MaxLen == 3            \* longest payload, in bytes
MaxChunkSize == 2      \* largest chunk_size passed to encrypt_bytes_to_asset
TicksPerSecond == 2    \* clock resolution
MaxSubTicks == 2       \* ticks the clock may stand past a whole hour
MaxHours == 2          \* the clock stops at MaxHours hours after the epoch
MaxTamper == 1         \* byte flips an attacker applies to the asset files
StreamLen == 3         \* length of the payloads streamed, in bytes
MaxStreams == 3        \* requests served per asset
MaxQueue == 2          \* a request is served while fewer tasks than this wait

\* ------------------------------------------------------- program constants
SecondsPerHour == 3600
StreamChunkSize == 4194304     \* 4 * 1024 * 1024
StreamExpiryHours == 24

Byte == 0..1
Payloads == UNION {[1..n -> Byte] : n \in 0..MaxLen}
\* the payload 1, 0, 1, ... of n bytes
Pattern(n) == [k \in 1..n |-> k % 2]
ChunkSizes == -1..MaxChunkSize
ExpiryHours == {-1, 0, 1}
HourTicks == SecondsPerHour * TicksPerSecond

AssetIds == {"a1"}
Alice == "alice"
Bob == "bob"
PinOf == [alice |-> "1234", bob |-> "5678"]
\* "0000" is a wrong PIN; "0001" is a wrong PIN whose derived key happens to
\* leave a valid PKCS#7 padding in the last block (about one key in 256 does)
LuckyPins == {"0001"}

None == [none |-> TRUE]
NoDir == [absent |-> TRUE]

Min(a, b) == IF a < b THEN a ELSE b
Max(a, b) == IF a > b THEN a ELSE b

RECURSIVE Xor(_, _)
Xor(a, b) ==
    IF a = 0 THEN b
    ELSE IF b = 0 THEN a
    ELSE (((a % 2) + (b % 2)) % 2) + 2 * Xor(a \div 2, b \div 2)

\* ------------------------------------------------------------- primitives
\* hashlib.sha256(x).hexdigest(): flip # 0 is a hex string with altered chars
sha256(x) == [pre |-> x, flip |-> 0]

\* a byte string whose content is not modelled further; flip # 0 is the
\* string with some of its bytes altered
Str(s) == [s |-> s, flip |-> 0]

\* recipient_public_key.encrypt(aes_key, RSA_OAEP_PADDING)
rsa_encrypt(owner, key) == [to |-> owner, key |-> key, flip |-> 0]

\* private_key.decrypt(blob, RSA_OAEP_PADDING): raises ValueError unless the
\* blob is an unmodified encryption under this key pair
rsa_decrypt(owner, blob) ==
    IF blob.flip = 0 /\ blob.to = owner
    THEN [ok |-> TRUE, key |-> blob.key]
    ELSE [ok |-> FALSE, key |-> None]

\* Cipher(AES(key), CTR(nonce)).encryptor()
aes_ctr_encrypt(key, nonce, data) == [key |-> key, nonce |-> nonce, body |-> data]

\* what a wrong key stream leaves: bytes that are no payload bytes, a text
\* that is no JSON
Noise(n) == [i \in 1..n |-> -1]
Garbled == [garbled |-> TRUE]

\* Cipher(AES(key), CTR(nonce)).decryptor(); `noise' is what the data turns
\* into under another key or nonce
aes_ctr_decrypt(key, nonce, ct, noise) ==
    IF ct.key = key /\ ct.nonce = nonce THEN ct.body ELSE noise

\* ------------------------------------------------------------------- keys
\* The sealed blob is salt + IV + AES-256-CBC(PKCS#7(PEM)) under a key derived
\* from the PIN and the salt.  `damage' is what was done to the blob since:
\*   "none"    nothing;
\*   "body"    a byte of the IV or of a ciphertext block before the last two is
\*             changed: CBC turns part of the PEM into other bytes and leaves
\*             the last block, hence the padding, as it was;
\*   "padding" a byte is changed that changes the padding bytes of the last
\*             plaintext block;
\*   "short"   the blob is cut below 32 bytes or to a length that is no
\*             multiple of the block size.
SealedDamage == {"none", "body", "padding", "short"}

encrypt_private_key(owner, pin) == [owner |-> owner, pin |-> pin, damage |-> "none"]

\* faulty variant: the PIN is not checked
decrypt_private_key_any_pin(sealed, pin) == [ok |-> TRUE, pem |-> sealed.owner]

\* ok = FALSE is the ValueError; the unpadder is the only check of the plaintext
decrypt_private_key(sealed, pin) ==
    IF sealed.damage \in {"short", "padding"} THEN [ok |-> FALSE, pem |-> "none"]
    ELSE IF pin = sealed.pin
    THEN [ok |-> TRUE, pem |-> IF sealed.damage = "none" THEN sealed.owner ELSE "garbage"]
    ELSE IF pin \in LuckyPins
    THEN [ok |-> TRUE, pem |-> "garbage"]
    ELSE [ok |-> FALSE, pem |-> "none"]

\* verify_pin: True unless decrypt_private_key raises ValueError
verify_pin(encrypted_private_key, pin) == decrypt_private_key(encrypted_private_key, pin).ok

load_private_key(pem) ==
    IF pem \in {"garbage", "none"}
    THEN [ok |-> FALSE, owner |-> "none"]
    ELSE [ok |-> TRUE, owner |-> pem]

\* identity/user.py
\* str.strip() and str.lower() on the usernames of the model
strip(username) ==
    CASE username = " CAROL " -> "CAROL"
      [] username = "  " -> ""
      [] OTHER -> username

lower(username) ==
    CASE username \in {"Bob", "bob"} -> "bob"
      [] username \in {"Carol", "CAROL", "carol"} -> "carol"
      [] username = " CAROL " -> " carol "
      [] OTHER -> username

\* create_user: user_id is the uuid4 drawn; ok = FALSE is the ValueError.  The
\* key pair is named after the user id.
create_user(username, pin, user_id) ==
    IF strip(username) = "" \/ pin = "" THEN [ok |-> FALSE, user |-> None]
    ELSE [ok |-> TRUE,
          user |-> [user_id |-> user_id, username |-> strip(username),
                    public_key_pem |-> user_id,
                    encrypted_private_key |-> encrypt_private_key(user_id, pin)]]

get_private_key(user, pin) ==
    LET d == decrypt_private_key(user.encrypted_private_key, pin)
    IN IF d.ok THEN load_private_key(d.pem) ELSE [ok |-> FALSE, owner |-> "none"]

verify_user_pin(user, pin) == verify_pin(user.encrypted_private_key, pin)

\* ------------------------------------------- registry (identity/registry.py)
\* faulty variant: usernames are compared as they are
username_exists_exact(reg, username) ==
    \E u \in DOMAIN reg : reg[u].username = username

\* add_user: the loop over the existing users
username_exists(reg, username) ==
    \E u \in DOMAIN reg : lower(reg[u].username) = lower(username)

\* UserRegistry.add_user: the registry afterwards, or the ValueError
add_user(reg, user) ==
    IF user.user_id \in DOMAIN reg \/ username_exists(reg, user.username)
    THEN [ok |-> FALSE, reg |-> reg]
    ELSE [ok |-> TRUE,
          reg |-> [u \in DOMAIN reg \cup {user.user_id} |->
                     IF u = user.user_id THEN user ELSE reg[u]]]

\* SecureShareSDK.create_user
sdk_create_user(reg, username, pin, user_id) ==
    LET c == create_user(username, pin, user_id)
    IN IF ~c.ok THEN [ok |-> FALSE, err |-> "InvalidInput", reg |-> reg]
       ELSE LET r == add_user(reg, c.user)
            IN [ok |-> r.ok, err |-> IF r.ok THEN "none" ELSE "AlreadyExists", reg |-> r.reg]

\* --------------------------------------------------------------- chunking
\* faulty variant: one chunk too many when chunk_size divides the length
chunk_bytes_one_more(data, chunk_size) ==
    IF chunk_size < 1 THEN <<>>
    ELSE [k \in 1..((Len(data) \div chunk_size) + 1) |->
            SubSeq(data, (k - 1) * chunk_size + 1, Min(k * chunk_size, Len(data)))]

\* faulty variant: a final chunk shorter than chunk_size is dropped
chunk_bytes_whole_only(data, chunk_size) ==
    IF chunk_size < 1 THEN <<>>
    ELSE [k \in 1..(Len(data) \div chunk_size) |->
            SubSeq(data, (k - 1) * chunk_size + 1, k * chunk_size)]

chunk_bytes(data, chunk_size) ==
    IF chunk_size < 1 THEN <<>>
    ELSE LET n == (Len(data) + chunk_size - 1) \div chunk_size
         IN [k \in 1..n |->
               SubSeq(data, (k - 1) * chunk_size + 1, Min(k * chunk_size, Len(data)))]

\* fresh AES key and nonce per unit; `unit' names the unit they are drawn for
FreshKey(unit) == [aes |-> unit]
FreshNonce(unit) == [nonce |-> unit, flip |-> 0]

encrypt_chunk(chunk, recipient, unit) ==
    [enc |-> aes_ctr_encrypt(FreshKey(unit), FreshNonce(unit), chunk),
     key |-> rsa_encrypt(recipient, FreshKey(unit)),
     nonce |-> FreshNonce(unit)]

decrypt_chunk_crypto(encrypted_chunk, encrypted_key, nonce, owner) ==
    LET k == rsa_decrypt(owner, encrypted_key)
    IN IF ~k.ok THEN [ok |-> FALSE, data |-> <<>>]
       ELSE [ok |-> TRUE,
             data |-> aes_ctr_decrypt(k.key, nonce, encrypted_chunk,
                                      Noise(Len(encrypted_chunk.body)))]

hash_chunk(chunk) == sha256(chunk)

\* --------------------------------------------------------------- manifest
create_manifest(asset_id, chunk_size, chunks, total_size) ==
    [version |-> "2.0", asset_id |-> asset_id, chunk_size |-> chunk_size,
     total_chunks |-> Len(chunks), total_size |-> total_size,
     chunks |-> chunks, metadata_block |-> "metadata.enc"]

ManifestFields == {"version", "asset_id", "chunk_size", "total_chunks", "total_size",
                   "chunks", "metadata_block"}
ChunkFields == {"index", "hash_sha256", "size", "encrypted_key_file", "nonce_file"}

\* validate_manifest: every required field is a key of the manifest and of each
\* chunk entry.  A manifest is a function from its keys; a key that is absent
\* is not in its DOMAIN.
validate_manifest(manifest) ==
    /\ ManifestFields \subseteq DOMAIN manifest
    /\ \A k \in DOMAIN manifest.chunks : ChunkFields \subseteq DOMAIN manifest.chunks[k]

\* the dict without a key
DropKey(dict, key) == [k \in DOMAIN dict \ {key} |-> dict[k]]

\* json.dumps(manifest, sort_keys=True, indent=2): the canonical text.  A text
\* is its content, its whitespace (ws = 0: canonical) and whether it parses.
serialize_manifest(manifest) == [data |-> manifest, ws |-> 0, wf |-> TRUE]

\* json.loads(json_str)
deserialize_manifest(text) ==
    IF text.wf THEN [ok |-> TRUE, manifest |-> text.data]
    ELSE [ok |-> FALSE, manifest |-> None]

hash_manifest(manifest) == sha256(serialize_manifest(manifest))

verify_manifest_hash(manifest, expected_hash) == hash_manifest(manifest) = expected_hash

\* --------------------------------------------------------------- metadata
RECURSIVE Digits(_)
Digits(n) == IF n < 10 THEN <<n>> ELSE Digits(n \div 10) \o <<(n % 10)>>

RECURSIVE DigitsValue(_)
DigitsValue(ds) ==
    IF ds = <<>> THEN 0 ELSE 10 * DigitsValue(SubSeq(ds, 1, Len(ds) - 1)) + ds[Len(ds)]

MetaKeys == {"created_at", "expiry_at", "version", "sender_id", "recipient_id",
             "filename", "manifest_hash"}

\* json.dumps(metadata, sort_keys=True): the keys written, the decimal digits
\* of expiry_at, and the other values
json_dumps_metadata(md) ==
    [wf |-> TRUE, present |-> md.present,
     neg |-> md.expiry_at < 0,
     digits |-> Digits(IF md.expiry_at < 0 THEN -md.expiry_at ELSE md.expiry_at),
     created_at |-> md.created_at, version |-> md.version,
     sender_id |-> md.sender_id, recipient_id |-> md.recipient_id,
     filename |-> md.filename, manifest_hash |-> md.manifest_hash]

\* json.loads(metadata_json.decode('utf-8')): a JSON number is -?(0|[1-9][0-9]*)
json_loads_metadata(text) ==
    IF \/ text = Garbled
       \/ ~text.wf
       \/ \E i \in 1..Len(text.digits) : text.digits[i] > 9
       \/ (Len(text.digits) > 1 /\ text.digits[1] = 0)
    THEN [ok |-> FALSE, md |-> None]
    ELSE [ok |-> TRUE,
          md |-> [present |-> text.present,
                  expiry_at |-> IF text.neg THEN -DigitsValue(text.digits)
                                ELSE DigitsValue(text.digits),
                  created_at |-> text.created_at, version |-> text.version,
                  sender_id |-> text.sender_id, recipient_id |-> text.recipient_id,
                  filename |-> text.filename, manifest_hash |-> text.manifest_hash]]

encrypt_metadata(metadata, recipient, unit) ==
    [enc |-> aes_ctr_encrypt(FreshKey(unit), FreshNonce(unit), json_dumps_metadata(metadata)),
     key |-> rsa_encrypt(recipient, FreshKey(unit)),
     nonce |-> FreshNonce(unit)]

decrypt_metadata(encrypted_metadata, encrypted_aes_key, nonce, owner) ==
    LET k == rsa_decrypt(owner, encrypted_aes_key)
    IN IF ~k.ok THEN [ok |-> FALSE, md |-> None]
       ELSE json_loads_metadata(aes_ctr_decrypt(k.key, nonce, encrypted_metadata, Garbled))

\* ------------------------------------------------------------------ clock
\* int(x) of a time x given in ticks: truncation towards zero, in seconds
IntTrunc(ticks) ==
    IF ticks >= 0 THEN ticks \div TicksPerSecond
    ELSE -((-ticks) \div TicksPerSecond)

\* time.time() > t for a time t in whole seconds
TimeAfter(now, seconds) == now > seconds * TicksPerSecond


\* ------------------------------------------------------------ asset files
\* the files of an asset directory, as create_asset writes them
create_asset(manifest, encrypted_metadata, encrypted_metadata_key, metadata_nonce, chunk_data) ==
    [manifest |-> serialize_manifest(manifest),
     meta_enc |-> encrypted_metadata,
     meta_key |-> encrypted_metadata_key,
     meta_nonce |-> metadata_nonce,
     chunks |-> chunk_data]

\* the number of files create_asset writes: manifest.json, metadata.enc, .key,
\* .nonce, then chunk_<i>.enc, .key, .nonce for each chunk
FileCount(dir) == 4 + 3 * Len(dir.chunks)

\* the directory after the first k file writes of create_asset (both mkdir done);
\* a file not yet written is None
create_asset_prefix(dir, k) ==
    [manifest |-> IF k >= 1 THEN dir.manifest ELSE None,
     meta_enc |-> IF k >= 2 THEN dir.meta_enc ELSE None,
     meta_key |-> IF k >= 3 THEN dir.meta_key ELSE None,
     meta_nonce |-> IF k >= 4 THEN dir.meta_nonce ELSE None,
     chunks |-> [i \in 1..(IF k > 4 THEN Min((k - 2) \div 3, Len(dir.chunks)) ELSE 0) |->
                   [enc |-> dir.chunks[i].enc,
                    key |-> IF k >= 3 * i + 3 THEN dir.chunks[i].key ELSE None,
                    nonce |-> IF k >= 3 * i + 4 THEN dir.chunks[i].nonce ELSE None]]]

\* results of the engine's calls: ok, the error kind, the value returned, the
\* steps the call went through in order, and the metadata it decrypted
Fail(err, ev, md) == [ok |-> FALSE, err |-> err, val |-> None, ev |-> ev, md |-> md]
Done(val, ev, md) == [ok |-> TRUE, err |-> "none", val |-> val, ev |-> ev, md |-> md]

\* asset/asset.py load_asset: reads and parses manifest.json, nothing else
load_asset_fn(dir) ==
    IF dir = NoDir THEN [ok |-> FALSE, err |-> "NotFound", manifest |-> None]
    ELSE IF dir.manifest = None THEN [ok |-> FALSE, err |-> "NotFound", manifest |-> None]
    ELSE LET m == deserialize_manifest(dir.manifest)
         IN IF m.ok THEN [ok |-> TRUE, err |-> "none", manifest |-> m.manifest]
            ELSE [ok |-> FALSE, err |-> "MalformedAsset", manifest |-> None]

\* Python truthiness of metadata.get(key)
Truthy(md, key) ==
    /\ key \in md.present
    /\ (key = "expiry_at" => md.expiry_at # 0)

validate_asset_metadata(dir, manifest, owner, now, check_expiry) ==
    LET ev0 == <<"read_metadata">>
        d == decrypt_metadata(dir.meta_enc, dir.meta_key, dir.meta_nonce, owner)
    IN IF None \in {dir.meta_enc, dir.meta_key, dir.meta_nonce}
       THEN Fail("Io", ev0, None)   \* open(): no such file
       ELSE IF ~d.ok THEN Fail("AuthFailed", ev0, None)
       ELSE LET ev1 == ev0 \o <<"metadata_decrypted">>
            IN IF ~Truthy(d.md, "manifest_hash")
               THEN Fail("IntegrityFailure", ev1, d.md)
               ELSE IF ~verify_manifest_hash(manifest, d.md.manifest_hash)
               THEN Fail("IntegrityFailure", ev1, d.md)
               ELSE LET ev2 == ev1 \o <<"manifest_hash_ok">>
                    IN IF /\ check_expiry
                          /\ Truthy(d.md, "expiry_at")
                          /\ TimeAfter(now, d.md.expiry_at)
                       THEN Fail("Expired", ev2, d.md)
                       ELSE Done(d.md, ev2 \o <<"validated">>, d.md)

\* faulty variant: the hash is not compared
verify_chunk_integrity_skipped(chunk_data, expected_hash) == TRUE

verify_chunk_integrity(chunk_data, expected_hash) == hash_chunk(chunk_data) = expected_hash

\* ------------------------------------------------------------ SDK (sdk.py)
\* SecureShareSDK.encrypt_bytes_to_asset: the directory written, or the error
encrypt_bytes_to_asset(reg, byte_array, recipient_id, sender_id, sender_pin, filename, expiry_hours, chunk_size, asset_id, now) ==
    IF sender_id \notin DOMAIN reg THEN Fail("InvalidInput", <<>>, None)
    ELSE IF ~get_private_key(reg[sender_id], sender_pin).ok
    THEN Fail("AuthFailed", <<>>, None)
    ELSE IF recipient_id \notin DOMAIN reg THEN Fail("InvalidInput", <<>>, None)
    ELSE IF chunk_size = 0 THEN Fail("InvalidInput", <<>>, None)  \* range() step 0
    ELSE
    LET chunks == chunk_bytes(byte_array, chunk_size)
        chunk_data == [k \in 1..Len(chunks) |->
                         encrypt_chunk(chunks[k], reg[recipient_id].public_key_pem,
                                       <<asset_id, k - 1>>)]
        chunk_metadata == [k \in 1..Len(chunks) |->
                             [index |-> k - 1,
                              hash_sha256 |-> hash_chunk(chunks[k]),
                              size |-> Len(chunks[k]),
                              encrypted_key_file |-> <<"chunk", k - 1, "key">>,
                              nonce_file |-> <<"chunk", k - 1, "nonce">>]]
        manifest == create_manifest(asset_id, chunk_size, chunk_metadata, Len(byte_array))
        metadata == [present |-> MetaKeys,
                     created_at |-> IntTrunc(now),
                     expiry_at |-> IntTrunc(now + expiry_hours * HourTicks),
                     version |-> "2.0",
                     sender_id |-> Str(sender_id),
                     recipient_id |-> Str(recipient_id),
                     filename |-> Str(filename),
                     manifest_hash |-> hash_manifest(manifest)]
        em == encrypt_metadata(metadata, reg[recipient_id].public_key_pem,
                               <<asset_id, "metadata">>)
    IN Done(create_asset(manifest, em.enc, em.key, em.nonce, chunk_data), <<>>, metadata)

\* SecureShareSDK.load_asset
sdk_load_asset(reg, dir, user_id, pin, now) ==
    IF user_id \notin DOMAIN reg THEN Fail("InvalidInput", <<>>, None)
    ELSE LET pk == get_private_key(reg[user_id], pin)
    IN IF ~pk.ok THEN Fail("AuthFailed", <<>>, None)
       ELSE LET a == load_asset_fn(dir)
       IN IF ~a.ok THEN Fail(a.err, <<"read_manifest">>, None)
          ELSE LET v == validate_asset_metadata(dir, a.manifest, pk.owner, now, TRUE)
                   ev == <<"read_manifest">> \o v.ev
          IN IF ~v.ok THEN Fail(v.err, ev, v.md)
             ELSE Done([asset_id |-> a.manifest.asset_id,
                        chunk_count |-> a.manifest.total_chunks,
                        metadata |-> v.md,
                        is_expired |-> FALSE], ev, v.md)

\* SecureShareSDK.get_chunk_count
sdk_get_chunk_count(dir) ==
    LET a == load_asset_fn(dir)
    IN IF a.ok THEN Done(a.manifest.total_chunks, <<"read_manifest">>, None)
       ELSE Fail(a.err, <<"read_manifest">>, None)

\* SecureShareSDK.decrypt_chunk
\* faulty variant: only a negative index is refused
invalid_chunk_index_negative_only(chunk_index, total_chunks) == chunk_index < 0

\* decrypt_chunk: if chunk_index < 0 or chunk_index >= manifest['total_chunks']
invalid_chunk_index(chunk_index, total_chunks) ==
    chunk_index < 0 \/ chunk_index >= total_chunks

sdk_decrypt_chunk(reg, dir, chunk_index, user_id, pin, now) ==
    IF user_id \notin DOMAIN reg THEN Fail("InvalidInput", <<>>, None)
    ELSE LET pk == get_private_key(reg[user_id], pin)
    IN IF ~pk.ok THEN Fail("AuthFailed", <<>>, None)
       ELSE LET a == load_asset_fn(dir)
       IN IF ~a.ok THEN Fail(a.err, <<"read_manifest">>, None)
          ELSE LET v == validate_asset_metadata(dir, a.manifest, pk.owner, now, TRUE)
                   ev == <<"read_manifest">> \o v.ev
          IN IF ~v.ok THEN Fail(v.err, ev, v.md)
             ELSE IF invalid_chunk_index(chunk_index, a.manifest.total_chunks)
             THEN Fail("OutOfRange", ev, v.md)
             ELSE IF chunk_index >= Len(dir.chunks)
             THEN Fail("Io", ev \o <<"read_chunk">>, v.md)   \* open(): no such file
             ELSE LET c == dir.chunks[chunk_index + 1]
                      ev3 == ev \o <<"read_chunk">>
                      d == decrypt_chunk_crypto(c.enc, c.key, c.nonce, pk.owner)
                  IN IF None \in {c.enc, c.key, c.nonce} THEN Fail("Io", ev3, v.md)
                     ELSE IF ~d.ok THEN Fail("AuthFailed", ev3, v.md)
                     ELSE IF ~verify_chunk_integrity(
                                 d.data, a.manifest.chunks[chunk_index + 1].hash_sha256)
                     THEN Fail("IntegrityFailure", ev3 \o <<"chunk_decrypted">>, v.md)
                     ELSE Done(d.data, ev3 \o <<"chunk_decrypted">>, v.md)



\* ------------------------------------------- caches (webapp/chunk_cache.py)
\* an OrderedDict is the sequence of its entries, oldest first
Without(cache, key) == SelectSeq(cache, LAMBDA e : e.key # key)

Has(cache, key) == \E i \in DOMAIN cache : cache[i].key = key

Entry(cache, key) == cache[CHOOSE i \in DOMAIN cache : cache[i].key = key]

\* faulty variant: nothing is evicted
Evict_nothing(cache, max_size) == cache

\* popitem(last=False) while len(cache) > max_size
Evict(cache, max_size) ==
    IF Len(cache) > max_size
    THEN SubSeq(cache, Len(cache) - max_size + 1, Len(cache))
    ELSE cache

\* faulty variant: a hit does not move the entry to the end
DecryptedChunkCache_get_no_move(cache, asset_id, chunk_idx, now) ==
    LET key == <<asset_id, chunk_idx>>
    IN IF ~Has(cache, key) THEN [hit |-> FALSE, data |-> <<>>, cache |-> cache]
       ELSE LET e == Entry(cache, key)
            IN IF now > e.expiry_time
               THEN [hit |-> FALSE, data |-> <<>>, cache |-> Without(cache, key)]
               ELSE [hit |-> TRUE, data |-> e.data, cache |-> cache]

\* faulty variant: the lookup uses another key (the asset's path) and misses
DecryptedChunkCache_get_other_key(cache, asset_id, chunk_idx, now) ==
    [hit |-> FALSE, data |-> <<>>, cache |-> cache]

\* DecryptedChunkCache.get: the data (hit) or None, and the cache afterwards
DecryptedChunkCache_get(cache, asset_id, chunk_idx, now) ==
    LET key == <<asset_id, chunk_idx>>
    IN IF ~Has(cache, key) THEN [hit |-> FALSE, data |-> <<>>, cache |-> cache]
       ELSE LET e == Entry(cache, key)
            IN IF now > e.expiry_time
               THEN [hit |-> FALSE, data |-> <<>>, cache |-> Without(cache, key)]
               ELSE [hit |-> TRUE, data |-> e.data,
                     cache |-> Without(cache, key) \o <<e>>]

\* faulty variant: the entry is stored under the next chunk index
DecryptedChunkCache_put_next_index(cache, asset_id, chunk_idx, data, expiry_time, max_size) ==
    Evict(Without(cache, <<asset_id, chunk_idx + 1>>)
            \o <<[key |-> <<asset_id, chunk_idx + 1>>, data |-> data,
                  expiry_time |-> expiry_time]>>,
          max_size)

DecryptedChunkCache_put(cache, asset_id, chunk_idx, data, expiry_time, max_size) ==
    Evict(Without(cache, <<asset_id, chunk_idx>>)
            \o <<[key |-> <<asset_id, chunk_idx>>, data |-> data,
                  expiry_time |-> expiry_time]>>,
          max_size)

\* invalidate(asset_id), of either cache
Cache_invalidate(cache, asset_id) == SelectSeq(cache, LAMBDA e : e.key[1] # asset_id)

EncryptedChunkCache_get(cache, asset_path, chunk_idx) ==
    LET key == <<asset_path, chunk_idx>>
    IN IF ~Has(cache, key) THEN [hit |-> FALSE, data |-> None, cache |-> cache]
       ELSE [hit |-> TRUE, data |-> Entry(cache, key).data,
             cache |-> Without(cache, key) \o <<Entry(cache, key)>>]

EncryptedChunkCache_put(cache, asset_path, chunk_idx, triple, max_size) ==
    Evict(Without(cache, <<asset_path, chunk_idx>>)
            \o <<[key |-> <<asset_path, chunk_idx>>, data |-> triple]>>,
          max_size)

\* clear(), of either cache
Cache_clear(cache) == <<>>

\* --------------------------------- prefetch (webapp/prefetch_manager.py)
DecMaxSize == 10
EncMaxSize == 30
ShortRangeWindow == 3
NumWorkers == 2
WindowSize == 5
Workers == 1..NumWorkers

\* byte_delta / max(time_delta, 0.001) > threshold, for time_delta in ticks and
\* a threshold that is a multiple of 1000; computed without large products
VelocityAbove(byte_delta, ticks, threshold) ==
    IF 1000 * ticks < TicksPerSecond
    THEN byte_delta > threshold \div 1000
    ELSE LET scaled == byte_delta * TicksPerSecond
         IN \/ scaled \div ticks > threshold
            \/ scaled \div ticks = threshold /\ scaled % ticks > 0

\* _detect_pattern comparing the two oldest requests of the window
detect_pattern_oldest_two(access_history) ==
    IF Len(access_history) < 2 THEN "sequential"
    ELSE LET byte_delta == access_history[2].byte_end - access_history[1].byte_end
             time_delta == access_history[2].timestamp - access_history[1].timestamp
         IN IF byte_delta < 0 THEN "backward"
            ELSE IF VelocityAbove(byte_delta, time_delta, 10000000) THEN "forward_scrub"
            ELSE IF VelocityAbove(byte_delta, time_delta, 1000000) THEN "sequential"
            ELSE "slow_forward"

\* VelocityDetector._detect_pattern
detect_pattern(access_history) ==
    IF Len(access_history) < 2 THEN "sequential"
    ELSE LET r0 == access_history[Len(access_history) - 1]
             r1 == access_history[Len(access_history)]
             byte_delta == r1.byte_end - r0.byte_end
             time_delta == r1.timestamp - r0.timestamp
         IN IF byte_delta < 0 THEN "backward"
            ELSE IF VelocityAbove(byte_delta, time_delta, 10000000) THEN "forward_scrub"
            ELSE IF VelocityAbove(byte_delta, time_delta, 1000000) THEN "sequential"
            ELSE "slow_forward"

\* VelocityDetector.on_range_request: the history afterwards
on_range_request(access_history, byte_start, byte_end, now) ==
    LET h == access_history \o <<[timestamp |-> now, byte_start |-> byte_start,
                                  byte_end |-> byte_end]>>
    IN IF Len(h) > WindowSize THEN Tail(h) ELSE h

\* range(lo, hi) as a sequence
PyRange(lo, hi) == IF hi <= lo THEN <<>> ELSE [k \in 1..(hi - lo) |-> lo + k - 1]

\* PrefetchManager._schedule_prefetch: the tasks put on the queue, in order
schedule_prefetch(asset_id, chunk_idx, pattern, user_id, pin, total_chunks, expiry_time) ==
    LET short == PyRange(chunk_idx + 2, Min(chunk_idx + ShortRangeWindow + 2, total_chunks))
        long == CASE pattern = "sequential" ->
                       PyRange(chunk_idx + 5, Min(chunk_idx + 15, total_chunks))
                  [] pattern = "forward_scrub" ->
                       PyRange(chunk_idx + 15, Min(chunk_idx + 30, total_chunks))
                  [] pattern = "slow_forward" ->
                       PyRange(chunk_idx + 10, Min(chunk_idx + 20, total_chunks))
                  [] pattern = "backward" ->
                       PyRange(Max(chunk_idx - 15, 0), chunk_idx)
    IN [k \in 1..Len(short) |->
          [type |-> "short_range", asset_id |-> asset_id, chunk_idx |-> short[k],
           user_id |-> user_id, pin |-> pin, expiry_time |-> expiry_time]]
       \o
       [k \in 1..Len(long) |->
          [type |-> "long_range", asset_id |-> asset_id, chunk_idx |-> long[k],
           user_id |-> "none", pin |-> "none", expiry_time |-> expiry_time]]

\* PrefetchManager._fetch_encrypted_chunk: the triple on disk, or None
\* (no chunk_<i>.enc: None; no .key or .nonce: open() raises, caught, None)
fetch_encrypted_chunk(dir, chunk_idx) ==
    IF dir = NoDir \/ chunk_idx < 0 \/ chunk_idx >= Len(dir.chunks) THEN None
    ELSE LET c == dir.chunks[chunk_idx + 1]
         IN IF None \in {c.enc, c.key, c.nonce} THEN None ELSE c

\* ------------------------------------------------------------------ state
VARIABLES
    users,      \* UserRegistry._users: user_id -> User
    clock,      \* time.time(), in ticks
    disk,       \* asset_id -> the files of the asset directory, or NoDir
    sent,       \* history: what the sender encrypted and wrote, per asset
    tampers,    \* history: number of byte flips applied so far
    last,       \* the most recent call of the engine and its result
    rd,         \* a recipient reading an asset front to back (demo_chunked.py)
    session_cache,  \* api_server.session_cache[token]: asset -> cached asset info
    dec_cache,  \* chunk_decrypted_cache.cache, least recently used first
    enc_cache,  \* chunk_encrypted_cache.cache, least recently used first
    detectors,  \* prefetch_manager.velocity_detectors: asset -> access_history
    abort_flags,\* prefetch_manager.abort_flags: asset -> "absent", "clear", "set"
    queue,      \* prefetch_manager.prefetch_queue
    workers,    \* the prefetch worker threads: position and task in hand
    resp,       \* the most recent response of api_stream_file
    shutdown_event, \* prefetch_manager.shutdown_event: set or not
    uses        \* history: the keys DecPut and DecGet used, least recently used first

web == <<session_cache, dec_cache, enc_cache, detectors, abort_flags, queue, workers, resp,
        shutdown_event>>

vars == <<users, clock, disk, sent, tampers, last, rd, web, uses>>

Filename == "report.bin"

\* callers of load_asset / decrypt_chunk: the recipient with the right PIN and
\* with wrong PINs, another registered user, an unknown user id
Callers == {<<Bob, "5678">>, <<Bob, "0000">>, <<Bob, "0001">>,
            <<Alice, "1234">>, <<"mallory", "0000">>}

NoCall == [op |-> "none", asset |-> "none", user |-> "none", pin |-> "none",
           index |-> -1, now |-> 0, dir |-> NoDir, res |-> Fail("none", <<>>, None)]

Call(op, a, u, pin, i, r) ==
    [op |-> op, asset |-> a, user |-> u, pin |-> pin, index |-> i, now |-> clock,
     dir |-> disk[a], res |-> r]

\* the call saw the asset directory as the sender wrote it
Intact(c) == c.dir # NoDir /\ c.dir = sent[c.asset].written

NoInfo == [absent |-> TRUE]
IdleWorker == [pc |-> "idle", task |-> None, data |-> <<>>]
\* a response: the status, the body, the chunks served from the decrypted cache,
\* and for a 500 the call that raised ("load_asset", "decrypt_chunk") and its error
NoResp == [asset |-> "none", status |-> 0, data |-> <<>>, hits |-> {},
           raised |-> "none", err |-> "none", now |-> 0]

RdIdle == [pc |-> "idle", asset |-> "none", n |-> 0, i |-> 0, buf |-> <<>>,
           now |-> 0, intact |-> FALSE, err |-> "none"]

Init ==
    /\ users = [u \in {Alice, Bob} |-> create_user(u, PinOf[u], u).user]
    /\ clock = HourTicks
    /\ disk = [a \in AssetIds |-> NoDir]
    /\ sent = [a \in AssetIds |-> NoDir]
    /\ tampers = 0
    /\ last = NoCall
    /\ rd = RdIdle
    /\ session_cache = [a \in AssetIds |-> NoInfo]
    /\ dec_cache = <<>>
    /\ enc_cache = <<>>
    /\ detectors = [a \in AssetIds |-> <<>>]
    /\ abort_flags = [a \in AssetIds |-> "absent"]
    /\ queue = <<>>
    /\ workers = [w \in Workers |-> IdleWorker]
    /\ resp = NoResp
    /\ shutdown_event = FALSE
    /\ uses = <<>>

\* ---------------------------------------------------------------- actions
\* the wall clock advances by one tick
Tick ==
    /\ (clock % HourTicks) < MaxSubTicks
    /\ clock' = clock + 1
    /\ UNCHANGED <<uses, users, disk, sent, tampers, last, rd, web>>

\* the wall clock advances by an hour
HourJump ==
    /\ clock + HourTicks <= MaxHours * HourTicks + MaxSubTicks
    /\ clock' = clock + HourTicks
    /\ UNCHANGED <<uses, users, disk, sent, tampers, last, rd, web>>

\* Alice encrypts a payload for Bob; the call takes time
Encrypt(a, P, cs, h, pin) ==
    /\ disk[a] = NoDir
    /\ LET r == encrypt_bytes_to_asset(users, P, Bob, Alice, pin, Filename, h, cs, a, clock)
       IN /\ last' = [Call("encrypt", a, Alice, pin, -1, r) EXCEPT !.res.val = None]
          /\ IF r.ok
             THEN /\ disk' = [disk EXCEPT ![a] = r.val]
                  /\ sent' = [sent EXCEPT ![a] =
                                [payload |-> P, chunk_size |-> cs, expiry_hours |-> h,
                                 metadata |-> r.md, written |-> r.val]]
                  /\ clock' = clock + 1
             ELSE UNCHANGED <<disk, sent, clock>>
    /\ UNCHANGED <<uses, users, tampers, rd, web>>

LoadAsset(a, u, pin) ==
    /\ last' = Call("load_asset", a, u, pin, -1, sdk_load_asset(users, disk[a], u, pin, clock))
    /\ UNCHANGED <<uses, users, clock, disk, sent, tampers, rd, web>>

DecryptChunk(a, u, pin, i) ==
    /\ last' = Call("decrypt_chunk", a, u, pin, i,
                    sdk_decrypt_chunk(users, disk[a], i, u, pin, clock))
    /\ UNCHANGED <<uses, users, clock, disk, sent, tampers, rd, web>>

\* get_chunk_count takes the asset path only
GetChunkCount(a) ==
    /\ last' = Call("get_chunk_count", a, "none", "none", -1, sdk_get_chunk_count(disk[a]))
    /\ UNCHANGED <<uses, users, clock, disk, sent, tampers, rd, web>>

\* demo_chunked.py: Bob loads the asset, then decrypts chunk 0, 1, ... in turn
ReaderLoad(a) ==
    /\ rd.pc # "reading"
    /\ disk[a] # NoDir
    /\ LET r == sdk_load_asset(users, disk[a], Bob, PinOf[Bob], clock)
           c == Call("load_asset", a, Bob, PinOf[Bob], -1, r)
       IN /\ last' = c
          /\ rd' = [pc |-> IF ~r.ok THEN "failed"
                           ELSE IF r.val.chunk_count = 0 THEN "done" ELSE "reading",
                    asset |-> a, n |-> IF r.ok THEN r.val.chunk_count ELSE 0,
                    i |-> 0, buf |-> <<>>, now |-> clock, intact |-> Intact(c),
                    err |-> r.err]
    /\ UNCHANGED <<uses, users, clock, disk, sent, tampers, web>>

ReaderStep ==
    /\ rd.pc = "reading"
    /\ LET r == sdk_decrypt_chunk(users, disk[rd.asset], rd.i, Bob, PinOf[Bob], clock)
           c == Call("decrypt_chunk", rd.asset, Bob, PinOf[Bob], rd.i, r)
       IN /\ last' = c
          /\ rd' = IF ~r.ok
                   THEN [rd EXCEPT !.pc = "failed", !.now = clock,
                                   !.intact = Intact(c), !.err = r.err]
                   ELSE [rd EXCEPT !.pc = IF rd.i + 1 = rd.n THEN "done" ELSE "reading",
                                   !.i = rd.i + 1, !.buf = rd.buf \o r.val,
                                   !.now = clock, !.intact = Intact(c)]
    /\ UNCHANGED <<uses, users, clock, disk, sent, tampers, web>>


\* ------------------------------------------ streaming (webapp/api_server.py)
\* Range headers a client sends: none, or bytes=<start>-<end> (end -1: absent)
NoRange == [has |-> FALSE, start |-> 0, end |-> -1]
Ranges == {NoRange,
           [has |-> TRUE, start |-> 0, end |-> 0],
           [has |-> TRUE, start |-> 0, end |-> -1],
           [has |-> TRUE, start |-> StreamChunkSize, end |-> 0]}

\* data[lo:hi] of Python, lo >= 0
PySlice(data, lo, hi) ==
    LET h == IF hi < 0 THEN Max(Len(data) + hi, 0) ELSE Min(hi, Len(data))
    IN IF lo >= h THEN <<>> ELSE SubSeq(data, lo + 1, h)

\* the handler's loop over range(chunk_idx, hi): the cache first, else
\* decrypt_chunk and put; an exception leaves the loop with what was done
RECURSIVE stream_chunks(_, _, _, _, _, _, _)
stream_chunks(a, chunk_idx, hi, cache, data, hits, expiry_hours) ==
    IF chunk_idx >= hi
    THEN [ok |-> TRUE, err |-> "none", cache |-> cache, data |-> data, hits |-> hits]
    ELSE LET g == DecryptedChunkCache_get(cache, a, chunk_idx, clock)
         IN IF g.hit /\ g.data # <<>>
            THEN stream_chunks(a, chunk_idx + 1, hi, g.cache, data \o g.data,
                               hits \cup {chunk_idx}, expiry_hours)
            ELSE LET r == sdk_decrypt_chunk(users, disk[a], chunk_idx, Bob, PinOf[Bob], clock)
                 IN IF ~r.ok
                    THEN [ok |-> FALSE, err |-> r.err, cache |-> g.cache, data |-> data,
                          hits |-> hits]
                    ELSE stream_chunks(
                           a, chunk_idx + 1, hi,
                           DecryptedChunkCache_put(g.cache, a, chunk_idx, r.val,
                                                   clock + expiry_hours * HourTicks,
                                                   DecMaxSize),
                           data \o r.val, hits, expiry_hours)

\* PrefetchManager.abort_asset: the flag is set, the decrypted cache invalidated
abort_asset(a, cache) ==
    /\ abort_flags' = [abort_flags EXCEPT ![a] = "set"]
    /\ dec_cache' = Cache_invalidate(cache, a)

\* api_stream_file: the session's cached asset info, loaded on a miss
stream_session(a) ==
    IF session_cache[a] # NoInfo
    THEN [ok |-> TRUE, err |-> "none", info |-> session_cache[a]]
    ELSE LET l == sdk_load_asset(users, disk[a], Bob, PinOf[Bob], clock)
         IN IF ~l.ok THEN [ok |-> FALSE, err |-> l.err, info |-> NoInfo]
            ELSE [ok |-> TRUE, err |-> "none",
                  info |-> [asset_id |-> a, chunk_count |-> l.val.chunk_count,
                            total_size |-> disk[a].manifest.data.total_size,
                            chunk_size |-> StreamChunkSize,
                            expiry_hours |-> StreamExpiryHours]]

\* api_stream_file: start_byte and end_byte of the request
byte_range(range, chunk_size, total_size) ==
    [start |-> range.start,
     end |-> Min(IF ~range.has THEN Min(chunk_size - 1, total_size - 1)
                 ELSE IF range.end = -1 THEN total_size - 1 ELSE range.end,
                 total_size - 1)]

\* PrefetchManager.on_chunk_access, after the handler's loop left `cache`
on_chunk_access(a, chunk_idx, history, pattern, total_chunks, expiry_time, cache) ==
    /\ detectors' = [detectors EXCEPT ![a] = history]
    /\ abort_flags' = [abort_flags EXCEPT ![a] = IF @ = "absent" THEN "clear" ELSE @]
    /\ queue' = queue \o schedule_prefetch(a, chunk_idx, pattern, Bob, PinOf[Bob],
                                           total_chunks, expiry_time)
    /\ dec_cache' = IF pattern = "backward" THEN Cache_invalidate(cache, a) ELSE cache

\* api_stream_file from the end of the loop: a 500 if it raised, else the
\* prefetch trigger and the trimmed body
stream_reply(a, range, cached, br, lp) ==
    IF ~lp.ok
    THEN /\ resp' = [NoResp EXCEPT !.asset = a, !.status = 500, !.now = clock,
                                   !.raised = "decrypt_chunk", !.err = lp.err,
                                   !.hits = lp.hits]
         /\ dec_cache' = lp.cache
         /\ UNCHANGED <<detectors, abort_flags, queue>>
    ELSE /\ LET history == on_range_request(detectors[a], br.start, br.end, clock)
            IN on_chunk_access(a, br.start \div cached.chunk_size, history,
                               detect_pattern(history), cached.chunk_count,
                               clock + cached.expiry_hours * HourTicks, lp.cache)
         /\ resp' = [asset |-> a,
                     status |-> IF range.has THEN 206 ELSE 200,
                     data |-> PySlice(lp.data, br.start % cached.chunk_size,
                                      (br.start % cached.chunk_size)
                                        + (br.end - br.start + 1)),
                     hits |-> lp.hits, raised |-> "none", err |-> "none",
                     now |-> clock]

\* api_stream_file from the range header on
stream_range(a, range, cached, br) ==
    /\ session_cache' = [session_cache EXCEPT ![a] = cached]
    /\ stream_reply(a, range, cached, br,
                    stream_chunks(a, br.start \div cached.chunk_size,
                                  Min((br.end \div cached.chunk_size) + 1,
                                      cached.chunk_count),
                                  dec_cache, <<>>, {}, cached.expiry_hours))

stream_with(a, range, s) ==
    IF ~s.ok
    THEN /\ resp' = [NoResp EXCEPT !.asset = a, !.status = 500, !.now = clock,
                                   !.raised = "load_asset", !.err = s.err]
         /\ UNCHANGED <<session_cache, dec_cache, detectors, abort_flags, queue>>
    ELSE stream_range(a, range, s.info,
                      byte_range(range, s.info.chunk_size, s.info.total_size))

\* api_stream_file, for Bob's session: one request, start to response
Stream(a, range) ==
    /\ Len(detectors[a]) < MaxStreams
    /\ Len(queue) < MaxQueue
    /\ IF disk[a] = NoDir
       THEN /\ resp' = [NoResp EXCEPT !.asset = a, !.status = 404, !.now = clock]
            /\ UNCHANGED <<session_cache, dec_cache, detectors, abort_flags, queue>>
       ELSE stream_with(a, range, stream_session(a))
    /\ UNCHANGED <<uses, users, clock, disk, sent, tampers, last, rd, shutdown_event, enc_cache, workers>>

\* _worker_loop from queue.get() on: the next task is dropped if the asset's
\* abort flag is set; the asset is aborted if the task's expiry_time has passed;
\* else the task goes to _prefetch_short_range or _prefetch_long_range
worker_take(w) ==
    /\ queue # <<>>
    /\ queue' = Tail(queue)
    /\ LET task == Head(queue)
       IN IF abort_flags[task.asset_id] = "set"
          THEN /\ workers' = [workers EXCEPT ![w] = IdleWorker]
               /\ UNCHANGED <<abort_flags, dec_cache>>
          ELSE IF clock > task.expiry_time
          THEN /\ abort_asset(task.asset_id, dec_cache)
               /\ workers' = [workers EXCEPT ![w] = IdleWorker]
          ELSE /\ workers' = [workers EXCEPT ![w] = [pc |-> "run", task |-> task,
                                                     data |-> <<>>]]
               /\ UNCHANGED <<abort_flags, dec_cache>>
    /\ UNCHANGED <<uses, users, clock, disk, sent, tampers, last, rd, shutdown_event,
                   session_cache, enc_cache, detectors, resp>>

\* _worker_loop, one iteration for a manager that is never shut down: the
\* loop test and the dequeue in one step
WorkerTake(w) ==
    /\ workers[w].pc = "idle"
    /\ ~shutdown_event
    /\ worker_take(w)

\* _worker_loop: `while not self.shutdown_event.is_set()`, then into queue.get
WorkerCheck(w) ==
    /\ workers[w].pc = "idle"
    /\ ~shutdown_event
    /\ workers' = [workers EXCEPT ![w].pc = "get"]
    /\ UNCHANGED <<uses, users, clock, disk, sent, tampers, last, rd, shutdown_event,
                   session_cache, dec_cache, enc_cache, detectors, abort_flags, queue, resp>>

\* _worker_loop: queue.get(timeout=1) returns a task
WorkerGet(w) ==
    /\ workers[w].pc = "get"
    /\ worker_take(w)

\* _worker_loop: queue.get(timeout=1) raises queue.Empty, back to the loop test
WorkerTimeout(w) ==
    /\ workers[w].pc = "get"
    /\ queue = <<>>
    /\ workers' = [workers EXCEPT ![w] = IdleWorker]
    /\ UNCHANGED <<uses, users, clock, disk, sent, tampers, last, rd, shutdown_event,
                   session_cache, dec_cache, enc_cache, detectors, abort_flags, queue, resp>>

\* PrefetchManager.shutdown: the event is set (the joins change nothing)
Shutdown ==
    /\ ~shutdown_event
    /\ shutdown_event' = TRUE
    /\ UNCHANGED <<uses, users, clock, disk, sent, tampers, last, rd,
                   session_cache, dec_cache, enc_cache, detectors, abort_flags, queue,
                   workers, resp>>

\* every task handled as a short-range task
is_short_range_always(task) == TRUE

\* _worker_loop: if task['type'] == 'short_range' ... elif ... 'long_range'
is_short_range(task) == task.type = "short_range"

\* _prefetch_short_range up to the decryption, or _prefetch_long_range, run on
\* the caches dec and enc: the caches afterwards and how the task ended:
\* "cached" (found in its target cache), "skipped" (nothing to fetch, or the
\* abort flag set), "fetched" (long-range, done), "decrypted" (short-range,
\* plaintext in hand, to be put), "failed" (decrypt_chunk raised)
prefetch_task(task, dec, enc, flag_set, dir, now) ==
    LET a == task.asset_id
        e == EncryptedChunkCache_get(enc, a, task.chunk_idx)
        fetched == fetch_encrypted_chunk(dir, task.chunk_idx)
        encrypted_data == IF e.hit THEN e.data ELSE fetched
        enc_after == IF e.hit \/ fetched = None THEN e.cache
                     ELSE EncryptedChunkCache_put(e.cache, a, task.chunk_idx, fetched,
                                                  EncMaxSize)
    IN IF is_short_range(task)
       THEN LET g == DecryptedChunkCache_get(dec, a, task.chunk_idx, now)
            IN IF g.hit
               THEN [outcome |-> "cached", dec |-> g.cache, enc |-> enc, data |-> <<>>]
               ELSE IF encrypted_data = None \/ flag_set
               THEN [outcome |-> "skipped", dec |-> g.cache, enc |-> enc_after,
                     data |-> <<>>]
               ELSE LET r == sdk_decrypt_chunk(users, dir, task.chunk_idx,
                                               task.user_id, task.pin, now)
                    IN IF r.ok
                       THEN [outcome |-> "decrypted", dec |-> g.cache, enc |-> enc_after,
                             data |-> r.val]
                       ELSE [outcome |-> "failed", dec |-> g.cache, enc |-> enc_after,
                             data |-> <<>>]
       ELSE IF e.hit
       THEN [outcome |-> "cached", dec |-> dec, enc |-> e.cache, data |-> <<>>]
       ELSE IF flag_set
       THEN [outcome |-> "skipped", dec |-> dec, enc |-> e.cache, data |-> <<>>]
       ELSE [outcome |-> IF fetched = None THEN "skipped" ELSE "fetched", dec |-> dec,
             enc |-> enc_after, data |-> <<>>]

\* a worker runs the task it took, up to the put of a decrypted chunk
WorkerRun(w) ==
    /\ workers[w].pc = "run"
    /\ LET task == workers[w].task
           a == task.asset_id
           r == prefetch_task(task, dec_cache, enc_cache, abort_flags[a] = "set", disk[a],
                              clock)
       IN /\ enc_cache' = r.enc
          /\ workers' = [workers EXCEPT ![w] = IF r.outcome = "decrypted"
                                               THEN [pc |-> "put", task |-> task,
                                                     data |-> r.data]
                                               ELSE IdleWorker]
          /\ IF r.outcome = "failed"
             THEN abort_asset(a, r.dec)
             ELSE dec_cache' = r.dec /\ UNCHANGED abort_flags
    /\ UNCHANGED <<uses, users, clock, disk, sent, tampers, last, rd, shutdown_event,
                   session_cache, detectors, queue, resp>>

\* _prefetch_short_range: the decrypted chunk goes into the cache
WorkerPut(w) ==
    /\ workers[w].pc = "put"
    /\ LET task == workers[w].task
       IN dec_cache' = DecryptedChunkCache_put(dec_cache, task.asset_id, task.chunk_idx,
                                               workers[w].data, task.expiry_time,
                                               DecMaxSize)
    /\ workers' = [workers EXCEPT ![w] = IdleWorker]
    /\ UNCHANGED <<uses, users, clock, disk, sent, tampers, last, rd, shutdown_event, session_cache, enc_cache,
                   detectors, abort_flags, queue, resp>>

\* PrefetchManager.on_chunk_access called by a front end: the detector of the
\* asset is updated, the abort flag made, the tasks put on the queue
OnChunkAccess(a, chunk_idx, byte_start, byte_end, total_chunks) ==
    /\ Len(queue) < MaxQueue
    /\ LET history == on_range_request(detectors[a], byte_start, byte_end, clock)
           pattern == detect_pattern(history)
       IN /\ on_chunk_access(a, chunk_idx, history, pattern, total_chunks,
                             clock + StreamExpiryHours * HourTicks, dec_cache)
          /\ last' = [op |-> "on_chunk_access", asset |-> a, index |-> chunk_idx,
                      total_chunks |-> total_chunks, pattern |-> pattern, now |-> clock]
    /\ UNCHANGED <<uses, users, clock, disk, sent, tampers, rd, shutdown_event,
                   session_cache, enc_cache, workers, resp>>

\* a day passes
DayJump ==
    /\ clock < StreamExpiryHours * HourTicks
    /\ clock' = clock + StreamExpiryHours * HourTicks
    /\ UNCHANGED <<uses, users, disk, sent, tampers, last, rd, web>>

\* ---------------------------------------------------------------- attacker
\* An attacker with write access to the asset directory flips bytes of its
\* files.  Each action is one byte flip.
ByteMasks == {1}
DigitMasks == {1, 8}

CanTamper(a) == disk[a] # NoDir /\ tampers < MaxTamper

Tampered(a, dir) ==
    /\ disk' = [disk EXCEPT ![a] = dir]
    /\ tampers' = tampers + 1
    /\ UNCHANGED <<uses, users, clock, sent, last, rd, web>>

\* chunk_<i>.enc: the same byte of the plaintext flips
TamperChunkEnc(a, i, p, m) ==
    /\ CanTamper(a)
    /\ i \in 1..Len(disk[a].chunks)
    /\ p \in 1..Len(disk[a].chunks[i].enc.body)
    /\ Tampered(a, [disk[a] EXCEPT !.chunks[i].enc.body[p] = Xor(@, m)])

\* chunk_<i>.key: no longer an OAEP encryption
TamperChunkKey(a, i) ==
    /\ CanTamper(a)
    /\ i \in 1..Len(disk[a].chunks)
    /\ Tampered(a, [disk[a] EXCEPT !.chunks[i].key.flip = Xor(@, 1)])

\* chunk_<i>.nonce: another counter block
TamperChunkNonce(a, i) ==
    /\ CanTamper(a)
    /\ i \in 1..Len(disk[a].chunks)
    /\ Tampered(a, [disk[a] EXCEPT !.chunks[i].nonce.flip = Xor(@, 1)])

\* manifest.json: a whitespace byte becomes another whitespace byte ("ws"), a
\* structural byte is destroyed ("syntax"), a digit of total_chunks changes
\* ("total_chunks"), a hex digit of the first chunk hash changes ("chunk_hash")
TamperManifest(a, kind) ==
    /\ CanTamper(a)
    /\ validate_manifest(disk[a].manifest.data)
    /\ kind = "chunk_hash" => Len(disk[a].manifest.data.chunks) > 0
    /\ Tampered(a,
         CASE kind = "ws" -> [disk[a] EXCEPT !.manifest.ws = Xor(@, 1)]
           [] kind = "syntax" -> [disk[a] EXCEPT !.manifest.wf = ~@]
           [] kind = "total_chunks" ->
                [disk[a] EXCEPT !.manifest.data.total_chunks = Xor(@, 1)]
           [] kind = "chunk_hash" ->
                [disk[a] EXCEPT !.manifest.data.chunks[1].hash_sha256.flip = Xor(@, 1)])

\* manifest.json: the member `field' of the top-level object is cut out; the
\* text is still JSON
TamperManifestField(a, field) ==
    /\ CanTamper(a)
    /\ field \in DOMAIN disk[a].manifest.data
    /\ Tampered(a, [disk[a] EXCEPT !.manifest.data = DropKey(@, field)])

\* manifest.json: the member `field' of the first chunk entry is cut out
TamperManifestChunkField(a, field) ==
    /\ CanTamper(a)
    /\ "chunks" \in DOMAIN disk[a].manifest.data
    /\ Len(disk[a].manifest.data.chunks) > 0
    /\ field \in DOMAIN disk[a].manifest.data.chunks[1]
    /\ Tampered(a, [disk[a] EXCEPT !.manifest.data.chunks[1] = DropKey(@, field)])

\* metadata.enc, a byte of the digits of expiry_at
TamperMetadataDigit(a, p, m) ==
    /\ CanTamper(a)
    /\ p \in 1..Len(disk[a].meta_enc.body.digits)
    /\ Tampered(a, [disk[a] EXCEPT !.meta_enc.body.digits[p] = Xor(@, m)])

\* metadata.enc, a byte of the name of a key: the object has another key instead
TamperMetadataKeyName(a, k) ==
    /\ CanTamper(a)
    /\ Tampered(a, [disk[a] EXCEPT !.meta_enc.body.present =
                      IF k \in @ THEN @ \ {k} ELSE @ \cup {k}])

\* metadata.enc, a byte of a string value, or a structural byte ("syntax")
TamperMetadataValue(a, k) ==
    /\ CanTamper(a)
    /\ Tampered(a,
         CASE k = "sender_id" -> [disk[a] EXCEPT !.meta_enc.body.sender_id.flip = Xor(@, 1)]
           [] k = "filename" -> [disk[a] EXCEPT !.meta_enc.body.filename.flip = Xor(@, 1)]
           [] k = "manifest_hash" ->
                [disk[a] EXCEPT !.meta_enc.body.manifest_hash.flip = Xor(@, 1)]
           [] k = "syntax" -> [disk[a] EXCEPT !.meta_enc.body.wf = ~@])

\* metadata.key or metadata.nonce
TamperMetadataKey(a) ==
    /\ CanTamper(a)
    /\ Tampered(a, [disk[a] EXCEPT !.meta_key.flip = Xor(@, 1)])

TamperMetadataNonce(a) ==
    /\ CanTamper(a)
    /\ Tampered(a, [disk[a] EXCEPT !.meta_nonce.flip = Xor(@, 1)])

Tamper ==
    \E a \in AssetIds :
        \/ \E i \in 1..MaxLen, p \in 1..MaxChunkSize, m \in ByteMasks :
               TamperChunkEnc(a, i, p, m)
        \/ \E i \in 1..MaxLen : TamperChunkKey(a, i)
        \/ \E i \in 1..MaxLen : TamperChunkNonce(a, i)
        \/ \E kind \in {"ws", "syntax", "total_chunks", "chunk_hash"} : TamperManifest(a, kind)
        \/ \E field \in ManifestFields : TamperManifestField(a, field)
        \/ \E field \in ChunkFields : TamperManifestChunkField(a, field)
        \/ \E p \in 1..5, m \in DigitMasks : TamperMetadataDigit(a, p, m)
        \/ \E k \in {"expiry_at", "manifest_hash", "filename"} : TamperMetadataKeyName(a, k)
        \/ \E k \in {"sender_id", "filename", "manifest_hash", "syntax"} :
               TamperMetadataValue(a, k)
        \/ TamperMetadataKey(a)
        \/ TamperMetadataNonce(a)

\* ------------------------------------------------------------ registrations
Usernames == {"Bob", "carol", "Carol", " CAROL ", "dave", "", "  "}
\* the uuid4 of a new user; a value drawn twice is a collision
UserIds == {"u1", "u2", "u3"}

RegistryCall(op, username, pin, user_id, ok, err) ==
    [op |-> op, asset |-> "none", user |-> username, pin |-> pin, index |-> -1,
     now |-> clock, dir |-> NoDir,
     res |-> IF ok THEN Done(user_id, <<>>, None) ELSE Fail(err, <<>>, None)]

CreateUser(username, pin, user_id) ==
    /\ LET r == sdk_create_user(users, username, pin, user_id)
       IN /\ users' = r.reg
          /\ last' = RegistryCall("create_user", username, pin, user_id, r.ok, r.err)
    /\ UNCHANGED <<uses, clock, disk, sent, tampers, rd, web>>

\* UserRegistry.add_user called with a User object made elsewhere: any id, a
\* username that was not stripped
AddUser(username, user_id) ==
    /\ LET user == [create_user("x", "1234", user_id).user EXCEPT !.username = username]
           r == add_user(users, user)
       IN /\ users' = r.reg
          /\ last' = RegistryCall("add_user", username, "1234", user_id, r.ok, "AlreadyExists")
    /\ UNCHANGED <<uses, clock, disk, sent, tampers, rd, web>>

NextRegistry ==
    \/ \E username \in Usernames, pin \in {"1234", ""}, user_id \in UserIds :
          CreateUser(username, pin, user_id)
    \/ \E username \in Usernames, user_id \in UserIds \cup {Alice} : AddUser(username, user_id)

SpecRegistry == Init /\ [][NextRegistry]_vars

\* ------------------------------------------------ PIN checks (identity/user.py)
PinCall(op, u, pin, r) ==
    [op |-> op, asset |-> "none", user |-> u, pin |-> pin, index |-> -1, now |-> clock,
     dir |-> users[u].encrypted_private_key, res |-> r]

VerifyUserPin(u, pin) ==
    /\ last' = PinCall("verify_user_pin", u, pin,
                       Done(verify_user_pin(users[u], pin), <<>>, None))
    /\ UNCHANGED <<uses, users, clock, disk, sent, tampers, rd, web>>

GetPrivateKey(u, pin) ==
    /\ LET k == get_private_key(users[u], pin)
       IN last' = PinCall("get_private_key", u, pin,
                          IF k.ok THEN Done(k.owner, <<>>, None)
                          ELSE Fail("AuthFailed", <<>>, None))
    /\ UNCHANGED <<uses, users, clock, disk, sent, tampers, rd, web>>

\* the sealed key of a user, as stored in the registry file, is damaged
DamageSealedKey(u, damage) ==
    /\ users[u].encrypted_private_key.damage = "none"
    /\ users' = [users EXCEPT ![u].encrypted_private_key.damage = damage]
    /\ UNCHANGED <<uses, clock, disk, sent, tampers, last, rd, web>>

PinsTried == {"1234", "5678", "0000", "0001"}

NextPin ==
    \/ \E u \in {Alice, Bob}, pin \in PinsTried : VerifyUserPin(u, pin)
    \/ \E u \in {Alice, Bob}, pin \in PinsTried : GetPrivateKey(u, pin)
    \/ \E u \in {Alice, Bob}, damage \in SealedDamage \ {"none"} : DamageSealedKey(u, damage)

SpecPin == Init /\ [][NextPin]_vars

\* ------------------------------------------ callers of the two chunk caches
\* Every method of both classes runs its whole body under `with self.lock', so
\* the calls of concurrent threads take effect one at a time, in any order.
CacheMaxSize == 2
CacheKeys == {<<"a1", 0>>, <<"a1", 1>>, <<"a2", 0>>, <<"a2", 1>>}
CacheData == {<<0>>, <<1>>}

CacheCall(op, key, r) ==
    [op |-> op, asset |-> key[1], user |-> "none", pin |-> "none", index |-> key[2],
     now |-> clock, dir |-> NoDir, res |-> r]

\* a put makes the key the most recently used one, with the bytes put
Used(key, data) == SelectSeq(uses, LAMBDA u : u.key # key) \o <<[key |-> key, data |-> data]>>

\* a get hit makes the key the most recently used one, with the bytes last put
Touched(key) ==
    SelectSeq(uses, LAMBDA u : u.key # key) \o SelectSeq(uses, LAMBDA u : u.key = key)

DecGet(key) ==
    LET g == DecryptedChunkCache_get(dec_cache, key[1], key[2], clock)
    IN /\ dec_cache' = g.cache
       /\ last' = CacheCall("dec_get", key,
                             IF g.hit THEN Done(g.data, <<>>, None) ELSE Fail("Miss", <<>>, None))
       /\ uses' = IF g.hit THEN Touched(key) ELSE uses
       /\ UNCHANGED <<users, clock, disk, sent, tampers, rd, shutdown_event, session_cache, enc_cache,
                      detectors, abort_flags, queue, workers, resp>>

DecPut(key, data, expiry_time) ==
    /\ dec_cache' = DecryptedChunkCache_put(dec_cache, key[1], key[2], data, expiry_time,
                                            CacheMaxSize)
    /\ last' = CacheCall("dec_put", key, Done(None, <<>>, None))
    /\ uses' = Used(key, data)
    /\ UNCHANGED <<users, clock, disk, sent, tampers, rd, shutdown_event, session_cache, enc_cache,
                   detectors, abort_flags, queue, workers, resp>>

DecInvalidate(asset_id) ==
    /\ dec_cache' = Cache_invalidate(dec_cache, asset_id)
    /\ last' = CacheCall("dec_invalidate", <<asset_id, -1>>, Done(None, <<>>, None))
    /\ UNCHANGED <<users, clock, disk, sent, tampers, rd, shutdown_event, session_cache, enc_cache,
                   detectors, abort_flags, queue, workers, resp, uses>>

DecClear ==
    /\ dec_cache' = Cache_clear(dec_cache)
    /\ last' = CacheCall("dec_clear", <<"none", -1>>, Done(None, <<>>, None))
    /\ UNCHANGED <<users, clock, disk, sent, tampers, rd, shutdown_event, session_cache, enc_cache,
                   detectors, abort_flags, queue, workers, resp, uses>>

EncGet(key) ==
    LET g == EncryptedChunkCache_get(enc_cache, key[1], key[2])
    IN /\ enc_cache' = g.cache
       /\ last' = CacheCall("enc_get", key,
                             IF g.hit THEN Done(g.data, <<>>, None) ELSE Fail("Miss", <<>>, None))
       /\ UNCHANGED <<users, clock, disk, sent, tampers, rd, shutdown_event, session_cache, dec_cache,
                      detectors, abort_flags, queue, workers, resp, uses>>

EncPut(key, triple) ==
    /\ enc_cache' = EncryptedChunkCache_put(enc_cache, key[1], key[2], triple, CacheMaxSize)
    /\ last' = CacheCall("enc_put", key, Done(None, <<>>, None))
    /\ UNCHANGED <<users, clock, disk, sent, tampers, rd, shutdown_event, session_cache, dec_cache,
                   detectors, abort_flags, queue, workers, resp, uses>>

EncInvalidate(asset_path) ==
    /\ enc_cache' = Cache_invalidate(enc_cache, asset_path)
    /\ last' = CacheCall("enc_invalidate", <<asset_path, -1>>, Done(None, <<>>, None))
    /\ UNCHANGED <<users, clock, disk, sent, tampers, rd, shutdown_event, session_cache, dec_cache,
                   detectors, abort_flags, queue, workers, resp, uses>>

EncClear ==
    /\ enc_cache' = Cache_clear(enc_cache)
    /\ last' = CacheCall("enc_clear", <<"none", -1>>, Done(None, <<>>, None))
    /\ UNCHANGED <<users, clock, disk, sent, tampers, rd, shutdown_event, session_cache, dec_cache,
                   detectors, abort_flags, queue, workers, resp, uses>>

\* threads calling the methods of a cache; a put may carry an expiry time that
\* has passed already.  The two caches are separate objects with a lock each and
\* no method of one reads the other, so a run exercises one of them: the keys
\* the threads pass to a cache while the other one is untouched
DecCallKeys == IF enc_cache = <<>> THEN CacheKeys ELSE {}
EncCallKeys == IF dec_cache = <<>> /\ uses = <<>> THEN CacheKeys ELSE {}

NextCache ==
    \/ \E key \in DecCallKeys : DecGet(key)
    \/ \E key \in DecCallKeys, data \in CacheData, e \in {-1, 1} : DecPut(key, data, clock + e)
    \/ \E key \in DecCallKeys : DecInvalidate(key[1])
    \/ enc_cache = <<>> /\ DecClear
    \/ \E key \in EncCallKeys : EncGet(key)
    \/ \E key \in EncCallKeys : EncPut(key, <<key, "key", "nonce">>)
    \/ \E key \in EncCallKeys : EncInvalidate(key[1])
    \/ dec_cache = <<>> /\ uses = <<>> /\ EncClear

SpecCache == Init /\ [][NextCache]_vars

\* put and get of the decrypted cache alone, with expiry times in the future
NextLru ==
    \/ \E key \in CacheKeys : DecGet(key)
    \/ \E key \in CacheKeys, data \in CacheData : DecPut(key, data, clock + 1)

SpecLru == Init /\ [][NextLru]_vars

\* create_asset seen file by file: encrypt_bytes_to_asset has made both
\* directories and is about to write the first file
BeginWrite(a, P, cs, h) ==
    /\ disk[a] = NoDir
    /\ LET r == encrypt_bytes_to_asset(users, P, Bob, Alice, PinOf[Alice], Filename, h, cs, a, clock)
       IN /\ r.ok
          /\ disk' = [disk EXCEPT ![a] = create_asset_prefix(r.val, 0)]
          /\ sent' = [sent EXCEPT ![a] =
                        [payload |-> P, chunk_size |-> cs, expiry_hours |-> h,
                         metadata |-> r.md, written |-> r.val]]
    /\ UNCHANGED <<uses, users, clock, tampers, last, rd, web>>

\* the files of the directory that are written
FilesWritten(a) ==
    CHOOSE k \in 0..FileCount(sent[a].written) : disk[a] = create_asset_prefix(sent[a].written, k)

\* create_asset writes its next file; a crash is the writer taking no more steps
WriteNext(a) ==
    /\ disk[a] # NoDir
    /\ disk[a] # sent[a].written
    /\ disk' = [disk EXCEPT ![a] = create_asset_prefix(sent[a].written, FilesWritten(a) + 1)]
    /\ UNCHANGED <<uses, users, clock, sent, tampers, last, rd, web>>

NextPartial ==
    \/ \E a \in AssetIds, n \in 0..MaxLen, cs \in 1..MaxChunkSize : BeginWrite(a, Pattern(n), cs, 1)
    \/ \E a \in AssetIds : WriteNext(a)
    \/ \E a \in AssetIds, c \in Callers : LoadAsset(a, c[1], c[2])
    \/ \E a \in AssetIds, i \in 0..MaxLen - 1 : DecryptChunk(a, Bob, PinOf[Bob], i)

SpecPartial == Init /\ [][NextPartial]_vars

NextSdk ==
    \/ Tick
    \/ HourJump
    \/ \E a \in AssetIds, n \in 0..MaxLen, cs \in ChunkSizes, h \in ExpiryHours,
          pin \in {"1234", "0000"} : Encrypt(a, Pattern(n), cs, h, pin)
    \/ \E a \in AssetIds, c \in Callers : LoadAsset(a, c[1], c[2])
    \/ \E a \in AssetIds, c \in Callers, i \in -1..MaxLen : DecryptChunk(a, c[1], c[2], i)

SpecSdk == Init /\ [][NextSdk]_vars

\* demo_chunked.py: Alice encrypts, Bob reads the asset front to back
NextReader ==
    \/ Tick
    \/ HourJump
    \/ \E a \in AssetIds, P \in Payloads, cs \in ChunkSizes, h \in ExpiryHours :
          Encrypt(a, P, cs, h, PinOf[Alice])
    \/ \E a \in AssetIds : ReaderLoad(a)
    \/ ReaderStep

SpecReader == Init /\ [][NextReader]_vars


\* the engine under attack: assets with an expiry one hour ahead, the
\* recipient's calls, and the attacker
NextTamper ==
    \/ HourJump
    \/ \E a \in AssetIds, cs \in 1..MaxChunkSize :
          Encrypt(a, Pattern(MaxLen), cs, 1, PinOf[Alice])
    \/ Tamper
    \/ \E a \in AssetIds : LoadAsset(a, Bob, PinOf[Bob])
    \/ \E a \in AssetIds, i \in 0..(MaxLen - 1) : DecryptChunk(a, Bob, PinOf[Bob], i)

SpecTamper == Init /\ [][NextTamper]_vars

\* the web application: Bob streams an asset that expires an hour after it was
\* written, the prefetch workers run, time passes, chunk files are tampered
NextStream ==
    \/ HourJump
    \/ DayJump
    \/ \E a \in AssetIds : Encrypt(a, Pattern(StreamLen), 1, 1, PinOf[Alice])
    \/ \E a \in AssetIds, i \in 0..(StreamLen - 1), p \in 1..1, m \in ByteMasks :
          TamperChunkEnc(a, i, p, m)
    \/ \E a \in AssetIds, range \in Ranges : Stream(a, range)
    \/ \E w \in Workers : WorkerTake(w)
    \/ \E w \in Workers : WorkerRun(w)
    \/ \E w \in Workers : WorkerPut(w)

SpecStream == Init /\ [][NextStream]_vars

\* foreground requests and prefetch workers on an asset that does not expire
\* meanwhile; an attacker may flip a byte of the first or the last chunk file
NextPrefetch ==
    \/ \E a \in AssetIds : Encrypt(a, Pattern(StreamLen), 1, 1, PinOf[Alice])
    \/ \E a \in AssetIds, i \in {1, StreamLen}, m \in ByteMasks : TamperChunkEnc(a, i, 1, m)
    \/ \E a \in AssetIds, range \in Ranges : Stream(a, range)
    \/ \E w \in Workers : WorkerTake(w)
    \/ \E w \in Workers : WorkerRun(w)
    \/ \E w \in Workers : WorkerPut(w)

SpecPrefetch == Init /\ [][NextPrefetch]_vars

\* Bob streams an asset while create_asset is still writing its files
NextWriting ==
    \/ \E a \in AssetIds : BeginWrite(a, Pattern(StreamLen), 1, 1)
    \/ \E a \in AssetIds : WriteNext(a)
    \/ \E a \in AssetIds, range \in Ranges : Stream(a, range)
    \/ \E w \in Workers : WorkerTake(w)
    \/ \E w \in Workers : WorkerRun(w)
    \/ \E w \in Workers : WorkerPut(w)

SpecWriting == Init /\ [][NextWriting]_vars

\* the velocity detector: requests of one asset at end bytes on and around the
\* thresholds, 0, 1/TicksPerSecond, ... seconds apart
EndBytes == {0, 1000, 1000000, 10000000, 50000000}

NextDetector ==
    \/ Tick
    \/ \E a \in AssetIds, byte_end \in EndBytes : OnChunkAccess(a, 0, 0, byte_end, 0)

SpecDetector == Init /\ [][NextDetector]_vars

\* a client that seeks: the Range headers of Ranges and one that starts past
\* the end of the asset
SeekRanges == Ranges \cup {[has |-> TRUE, start |-> 5 * StreamChunkSize, end |-> 0]}

NextSeek ==
    \/ \E a \in AssetIds : Encrypt(a, Pattern(StreamLen), 1, 1, PinOf[Alice])
    \/ \E a \in AssetIds, range \in SeekRanges : Stream(a, range)
    \/ \E w \in Workers : WorkerTake(w)
    \/ \E w \in Workers : WorkerRun(w)
    \/ \E w \in Workers : WorkerPut(w)

SpecSeek == Init /\ [][NextSeek]_vars

\* the prefetch manager is shut down while requests are served: the worker
\* loop step by step (loop test, queue.get, task)
NextShutdown ==
    \/ \E a \in AssetIds : Encrypt(a, Pattern(StreamLen), 1, 1, PinOf[Alice])
    \/ \E a \in AssetIds, range \in Ranges : Stream(a, range)
    \/ \E w \in Workers : WorkerCheck(w)
    \/ \E w \in Workers : WorkerGet(w)
    \/ \E w \in Workers : WorkerTimeout(w)
    \/ \E w \in Workers : WorkerRun(w)
    \/ \E w \in Workers : WorkerPut(w)
    \/ Shutdown

SpecShutdown == Init /\ [][NextShutdown]_vars

\* requests, prefetch workers, a flipped byte in the last chunk file, and
\* time passing: a day and a tick after a request its tasks are past their
\* expiry_time
NextExpiry ==
    \/ Tick
    \/ DayJump
    \/ \E a \in AssetIds : Encrypt(a, Pattern(StreamLen), 1, 1, PinOf[Alice])
    \/ \E a \in AssetIds, m \in ByteMasks : TamperChunkEnc(a, StreamLen, 1, m)
    \/ \E a \in AssetIds, range \in Ranges : Stream(a, range)
    \/ \E w \in Workers : WorkerTake(w)
    \/ \E w \in Workers : WorkerRun(w)
    \/ \E w \in Workers : WorkerPut(w)

SpecExpiry == Init /\ [][NextExpiry]_vars

\* chunk counts asked of an asset whose manifest may have been changed and
\* whose hour may have passed
NextCount ==
    \/ HourJump
    \/ \E a \in AssetIds, cs \in 1..MaxChunkSize :
          Encrypt(a, Pattern(MaxLen), cs, 1, PinOf[Alice])
    \/ \E a \in AssetIds, kind \in {"ws", "syntax", "total_chunks", "chunk_hash"} :
          TamperManifest(a, kind)
    \/ \E a \in AssetIds : LoadAsset(a, Bob, PinOf[Bob])
    \/ \E a \in AssetIds : GetChunkCount(a)

SpecCount == Init /\ [][NextCount]_vars

\* the scheduler: a front end reports accesses at chunk indices before, in and
\* past the asset's chunks, at end bytes that give each pattern; the workers
\* drain the queue (there are no files to fetch)
ScheduleChunks == {0, 20}
ScheduleTotals == {4, 12, 40}
ScheduleEndBytes == {0, 5000, 50000000}

NextSchedule ==
    \/ \E a \in AssetIds, c \in ScheduleChunks, e \in ScheduleEndBytes, n \in ScheduleTotals :
          /\ Len(detectors[a]) < MaxStreams
          /\ OnChunkAccess(a, c, c * StreamChunkSize, e, n)
    \/ \E w \in Workers : WorkerTake(w)
    \/ \E w \in Workers : WorkerRun(w)

SpecSchedule == Init /\ [][NextSchedule]_vars

\* ------------------------------------------------------------- properties
Range(f) == {f[i] : i \in DOMAIN f}

\* e occurs in the sequence ev, and before the first f
Before(ev, e, f) ==
    \E i \in DOMAIN ev : ev[i] = e /\ \A j \in DOMAIN ev : ev[j] = f => i < j

RightPin(c) == c.user \in DOMAIN PinOf /\ c.pin = PinOf[c.user]
ByRecipient(c) == c.user = Bob /\ c.pin = PinOf[Bob]

\* C1: in every call of decrypt_chunk, a chunk file is read only after, in
\* that same call, the metadata was decrypted with the caller's key, the
\* recomputed manifest hash equalled metadata.manifest_hash, and the time of
\* the call is not later than metadata.expiry_at.
C1_ChunkReadOnlyAfterValidation ==
    (last.op = "decrypt_chunk" /\ "read_chunk" \in Range(last.res.ev)) =>
        /\ Before(last.res.ev, "metadata_decrypted", "read_chunk")
        /\ Before(last.res.ev, "manifest_hash_ok", "read_chunk")
        /\ last.res.md # None
        /\ "expiry_at" \in last.res.md.present
        /\ ~TimeAfter(last.now, last.res.md.expiry_at)

\* C2: round trip.  Bob reading an unmodified asset made with chunk_size >= 1
\* and an expiry in the future, before it expires, loads it, decrypts every
\* chunk, and the concatenation is the payload.
C2_RoundTrip ==
    (/\ rd.pc \in {"done", "failed"}
     /\ rd.intact
     /\ sent[rd.asset].chunk_size >= 1
     /\ sent[rd.asset].expiry_hours >= 1
     /\ ~TimeAfter(rd.now, sent[rd.asset].metadata.expiry_at))
    => (rd.pc = "done" /\ rd.buf = sent[rd.asset].payload)

C2_Witness ==
    /\ rd.pc = "done"
    /\ rd.intact
    /\ rd.n >= 2
    /\ sent[rd.asset].chunk_size >= 1
    /\ sent[rd.asset].expiry_hours >= 1
    /\ Len(sent[rd.asset].payload) = MaxLen
    /\ rd.buf = sent[rd.asset].payload

\* C6: once the clock is past the expiry_at the sender wrote, every load_asset
\* and decrypt_chunk of the recipient on the unmodified asset fails with
\* Expired.
C6_ExpiredAfterExpiry ==
    (/\ last.op \in {"load_asset", "decrypt_chunk"}
     /\ Intact(last)
     /\ ByRecipient(last)
     /\ sent[last.asset].chunk_size >= 1
     /\ TimeAfter(last.now, sent[last.asset].metadata.expiry_at))
    => (~last.res.ok /\ last.res.err = "Expired")

\* C7: every load_asset of the recipient on an unmodified asset created with
\* expiry_hours <= 0 fails with Expired.
C7_NonPositiveExpiryHours ==
    (/\ last.op = "load_asset"
     /\ Intact(last)
     /\ ByRecipient(last)
     /\ sent[last.asset].chunk_size >= 1
     /\ sent[last.asset].expiry_hours <= 0)
    => (~last.res.ok /\ last.res.err = "Expired")

\* C8: load_asset and decrypt_chunk called by a registered user with a PIN
\* other than that user's fail with AuthFailed before any file is read.
C8_WrongPinReadsNothing ==
    (/\ last.op \in {"load_asset", "decrypt_chunk"}
     /\ last.user \in DOMAIN users
     /\ ~RightPin(last))
    => (~last.res.ok /\ last.res.err = "AuthFailed" /\ last.res.ev = <<>>)

C8_Witness ==
    /\ last.op = "decrypt_chunk"
    /\ last.user = Bob
    /\ last.pin \in LuckyPins
    /\ Intact(last)
    /\ last.index = 0
    /\ Len(disk[last.asset].chunks) > 0
    /\ ~TimeAfter(last.now, sent[last.asset].metadata.expiry_at)
    /\ last.res.err = "AuthFailed"


\* chunk i (from 0) of the payload the sender encrypted
OriginalChunk(a, i) ==
    SubSeq(sent[a].payload, i * sent[a].chunk_size + 1,
           Min((i + 1) * sent[a].chunk_size, Len(sent[a].payload)))

\* the call saw manifest.json and the metadata files as the sender wrote them
HeaderIntact(c) ==
    /\ c.dir # NoDir
    /\ c.dir.manifest = sent[c.asset].written.manifest
    /\ c.dir.meta_enc = sent[c.asset].written.meta_enc
    /\ c.dir.meta_key = sent[c.asset].written.meta_key
    /\ c.dir.meta_nonce = sent[c.asset].written.meta_nonce

ChunkIntact(c, i) == c.dir.chunks[i + 1] = sent[c.asset].written.chunks[i + 1]

\* C3: on an otherwise valid, unexpired asset, decrypt_chunk(i) fails with
\* IntegrityFailure or AuthFailed when a file of chunk i was modified, and
\* returns the original chunk i when none was, whatever was done to the other
\* chunks; bytes other than the original chunk are never returned.
C3_TamperedChunkIsolated ==
    /\ (/\ last.op = "decrypt_chunk"
        /\ ByRecipient(last)
        /\ HeaderIntact(last)
        /\ ~TimeAfter(last.now, sent[last.asset].metadata.expiry_at)
        /\ last.index \in 0..(Len(last.dir.chunks) - 1))
       => IF ChunkIntact(last, last.index)
          THEN last.res.ok /\ last.res.val = OriginalChunk(last.asset, last.index)
          ELSE ~last.res.ok /\ last.res.err \in {"IntegrityFailure", "AuthFailed"}
    /\ (last.op = "decrypt_chunk" /\ last.res.ok)
       => last.res.val = OriginalChunk(last.asset, last.index)

C3_Witness ==
    /\ last.op = "decrypt_chunk"
    /\ ByRecipient(last)
    /\ HeaderIntact(last)
    /\ ~TimeAfter(last.now, sent[last.asset].metadata.expiry_at)
    /\ Len(last.dir.chunks) >= 2
    /\ last.index = 0
    /\ last.dir.chunks[1].enc # sent[last.asset].written.chunks[1].enc
    /\ last.res.err = "IntegrityFailure"

\* the other half of the case: chunk 1 was modified, chunk 0 still decrypts
C3_WitnessOther ==
    /\ last.op = "decrypt_chunk"
    /\ ByRecipient(last)
    /\ last.dir # NoDir
    /\ Len(last.dir.chunks) >= 2
    /\ last.index = 0
    /\ ~ChunkIntact(last, 1)
    /\ last.res.ok

\* C4: after a byte of metadata.enc was flipped, load_asset and decrypt_chunk
\* fail with IntegrityFailure or AuthFailed; the expiry_at, sender_id and
\* filename a successful load_asset reports are the values the sender wrote.
C4_MetadataTamperDetected ==
    (/\ last.op \in {"load_asset", "decrypt_chunk"}
     /\ ByRecipient(last)
     /\ last.dir # NoDir)
    => /\ last.dir.meta_enc # sent[last.asset].written.meta_enc
          => (~last.res.ok /\ last.res.err \in {"IntegrityFailure", "AuthFailed"})
       /\ (last.op = "load_asset" /\ last.res.ok)
          => /\ last.res.val.metadata.present = MetaKeys
             /\ last.res.val.metadata.expiry_at = sent[last.asset].metadata.expiry_at
             /\ last.res.val.metadata.sender_id = sent[last.asset].metadata.sender_id
             /\ last.res.val.metadata.filename = sent[last.asset].metadata.filename

\* C5: after a byte of manifest.json was changed, load_asset fails with
\* IntegrityFailure.
C5_ManifestTamperDetected ==
    (/\ last.op = "load_asset"
     /\ ByRecipient(last)
     /\ last.dir # NoDir
     /\ last.dir.manifest # sent[last.asset].written.manifest)
    => (~last.res.ok /\ last.res.err = "IntegrityFailure")

\* the asset's expiry_at, as the sender wrote it into the metadata, in ticks
ExpiryTicks(a) == sent[a].metadata.expiry_at * TicksPerSecond

\* C9: every entry of the decrypted-chunk cache carries the expiry_at of its
\* asset's metadata, and no response serves a chunk from the decrypted cache
\* at a time later than the asset's expiry_at.
C9_CacheEntriesCarryExpiryAt ==
    /\ \A k \in DOMAIN dec_cache :
          dec_cache[k].expiry_time = ExpiryTicks(dec_cache[k].key[1])
    /\ resp.hits # {} => resp.now <= ExpiryTicks(resp.asset)

\* C10: whenever a request fails because the handler's decrypt_chunk raised
\* Expired or IntegrityFailure, the asset's abort flag is set and the
\* decrypted cache holds no entry of the asset once the request is answered.
C10_ForegroundFailureAborts ==
    [][(/\ resp' # resp
        /\ resp'.raised = "decrypt_chunk"
        /\ resp'.err \in {"Expired", "IntegrityFailure"})
       => (/\ abort_flags'[resp'.asset] = "set"
           /\ \A k \in DOMAIN dec_cache' : dec_cache'[k].key[1] # resp'.asset)]_vars

RECURSIVE SumSizes(_)
SumSizes(chunks) ==
    IF chunks = <<>> THEN 0 ELSE Head(chunks).size + SumSizes(Tail(chunks))

\* the manifest the sender wrote for asset a
ManifestOf(a) == sent[a].written.manifest.data

\* C11: for every payload P and chunk_size >= 1 the manifest written has
\* total_chunks = ceil(len(P) / chunk_size), the chunk sizes sum up to
\* total_size = len(P), every chunk but the last has size chunk_size and the
\* last has a size in 1..chunk_size.
C11_ChunkSizeInvariants ==
    \A a \in AssetIds :
        (sent[a] # NoDir /\ sent[a].chunk_size >= 1) =>
            LET m == ManifestOf(a)
                P == sent[a].payload
                cs == sent[a].chunk_size
                n == m.total_chunks
            IN /\ n * cs >= Len(P) /\ (n - 1) * cs < Len(P)
               /\ Len(m.chunks) = n
               /\ Len(sent[a].written.chunks) = n
               /\ SumSizes(m.chunks) = m.total_size
               /\ m.total_size = Len(P)
               /\ \A i \in 1..n : m.chunks[i].index = i - 1
               /\ \A i \in 1..(n - 1) : m.chunks[i].size = cs
               /\ n >= 1 => m.chunks[n].size \in 1..cs

\* two chunks of which the last is short
C11_Witness ==
    \E a \in AssetIds :
        /\ sent[a] # NoDir
        /\ sent[a].chunk_size = 2
        /\ Len(sent[a].payload) = 3
        /\ ManifestOf(a).total_chunks = 2
        /\ ManifestOf(a).chunks[2].size = 1

\* C12: encrypt_bytes_to_asset called by a sender with the right PIN and a
\* chunk_size below 1 fails with InvalidInput and writes no asset directory.
C12_NonPositiveChunkSizeRejected ==
    [][\A a \in AssetIds, n \in 0..MaxLen, cs \in ChunkSizes, h \in ExpiryHours :
          (cs < 1 /\ Encrypt(a, Pattern(n), cs, h, PinOf[Alice]))
          => (/\ disk' = disk
              /\ ~last'.res.ok
              /\ last'.res.err = "InvalidInput")]_vars

\* the asset directory the call saw validates for the caller at the time of the
\* call: metadata decrypted, manifest hash equal, not expired
Validated(c) == sdk_load_asset(users, c.dir, c.user, c.pin, c.now).ok

\* C13: decrypt_chunk on an asset that validates and is not expired, with an
\* index below 0 or not below total_chunks, fails with OutOfRange and reads no
\* chunk file.
C13_OutOfRangeReadsNoChunk ==
    (/\ last.op = "decrypt_chunk"
     /\ Validated(last)
     /\ \/ last.index < 0
        \/ last.index >= load_asset_fn(last.dir).manifest.total_chunks)
    => (/\ ~last.res.ok
        /\ last.res.err = "OutOfRange"
        /\ "read_chunk" \notin Range(last.res.ev))

\* an index equal to total_chunks on an asset of two chunks
C13_Witness ==
    /\ last.op = "decrypt_chunk"
    /\ Validated(last)
    /\ Intact(last)
    /\ load_asset_fn(last.dir).manifest.total_chunks = 2
    /\ last.index = 2
    /\ last.res.err = "OutOfRange"

\* a negative index
C13_WitnessNegative ==
    /\ last.op = "decrypt_chunk"
    /\ Validated(last)
    /\ last.index = -1
    /\ last.res.err = "OutOfRange"

\* C14: load_asset on an asset whose manifest.json lacks a required manifest
\* field, or whose chunk entry lacks a required field, fails with
\* MalformedAsset, and does so before the metadata block is decrypted.
C14_IncompleteManifestIsMalformed ==
    (/\ last.op = "load_asset"
     /\ ByRecipient(last)
     /\ last.dir # NoDir
     /\ last.dir.manifest.wf
     /\ ~validate_manifest(last.dir.manifest.data))
    => (/\ ~last.res.ok
        /\ last.res.err = "MalformedAsset"
        /\ "metadata_decrypted" \notin Range(last.res.ev))

\* C15: load_asset by the recipient on a directory that holds a proper prefix
\* of the files create_asset writes fails.
C15_PartialDirectoryRejected ==
    (/\ last.op = "load_asset"
     /\ ByRecipient(last)
     /\ last.dir # NoDir
     /\ \E k \in 0..(FileCount(sent[last.asset].written) - 1) :
            last.dir = create_asset_prefix(sent[last.asset].written, k))
    => ~last.res.ok

NoDuplicateKey(cache) ==
    \A i, j \in DOMAIN cache : cache[i].key = cache[j].key => i = j

\* C16: under any order of get, put, invalidate and clear calls on the two
\* caches, each cache holds at most max_size entries and at most one entry
\* per (asset, chunk index) key.
C16_CacheBounded ==
    /\ Len(dec_cache) <= CacheMaxSize
    /\ Len(enc_cache) <= CacheMaxSize
    /\ NoDuplicateKey(dec_cache)
    /\ NoDuplicateKey(enc_cache)

\* the decrypted cache is full after it was given more keys than it holds
C16_Witness ==
    /\ Len(dec_cache) = CacheMaxSize
    /\ last.op = "dec_put"
    /\ Cardinality({u.key : u \in Range(uses)}) > CacheMaxSize

\* the encrypted cache is full and the key just put is its most recent entry
C16_WitnessEncrypted ==
    /\ Len(enc_cache) = CacheMaxSize
    /\ last.op = "enc_put"
    /\ enc_cache[Len(enc_cache)].key = <<last.asset, last.index>>

\* the max_size most recently used keys, least recent first, with their bytes
MostRecent == SubSeq(uses, Max(1, Len(uses) - CacheMaxSize + 1), Len(uses))

\* C17: after any sequence of put and get calls on the decrypted cache with no
\* entry expired, the cache holds exactly the max_size most recently used
\* distinct keys (a put or a get hit makes a key most recent), in that order
\* and with the bytes of their latest put; a get of a present key returns
\* those bytes, and a get misses only a key that is not among them.
C17_LruLaw ==
    /\ [i \in DOMAIN dec_cache |-> [key |-> dec_cache[i].key, data |-> dec_cache[i].data]]
         = MostRecent
    /\ \A i \in DOMAIN dec_cache : ~(clock > dec_cache[i].expiry_time)
    /\ (last.op = "dec_get" /\ last.res.ok) =>
          /\ uses # <<>>
          /\ uses[Len(uses)] = [key |-> <<last.asset, last.index>>, data |-> last.res.val]
    /\ (last.op = "dec_get" /\ ~last.res.ok) =>
          \A u \in Range(MostRecent) : u.key # <<last.asset, last.index>>

\* a get hit after more distinct keys were put than the cache holds: the least
\* recently used key is gone
C17_Witness ==
    /\ last.op = "dec_get"
    /\ last.res.ok
    /\ Len(uses) > CacheMaxSize
    /\ ~Has(dec_cache, uses[1].key)
    /\ Len(dec_cache) = CacheMaxSize

C18_WitnessMiss ==
    /\ resp.status = 200
    /\ resp.hits = {}
    /\ resp.data = OriginalChunk(resp.asset, 0)
    /\ resp.data # <<>>
    /\ disk[resp.asset] = sent[resp.asset].written
    /\ \E w \in Workers : workers[w].pc = "put"

\* C19: verify_pin(sealed, pin) is true exactly when get_private_key with the
\* same blob and PIN succeeds; it is false for every PIN other than the one the
\* key was sealed under, and for every truncated or modified blob.
C19_VerifyPinIffUnwrap ==
    last.op = "verify_user_pin" =>
        /\ last.res.val = get_private_key([encrypted_private_key |-> last.dir], last.pin).ok
        /\ last.res.val => (last.pin = last.dir.pin /\ last.dir.damage = "none")

\* C20: after any sequence of create_user and add_user calls, accepted or
\* rejected, no two users of the registry have the same user_id or usernames
\* that are equal ignoring case.
C20_UsersUnique ==
    \A u, v \in DOMAIN users :
        u # v => /\ users[u].user_id # users[v].user_id
                 /\ lower(users[u].username) # lower(users[v].username)

\* a registration was rejected for a username that differs from a registered
\* one in case only, with an id that is free
C20_Witness ==
    /\ last.op = "create_user"
    /\ ~last.res.ok
    /\ last.res.err = "AlreadyExists"
    /\ \E u \in DOMAIN users :
          /\ users[u].username # strip(last.user)
          /\ lower(users[u].username) = lower(strip(last.user))
    /\ \E id \in UserIds : id \notin DOMAIN users
    /\ Cardinality(DOMAIN users) >= 4

\* C21: the pattern of a request is decided by the end bytes and the times of
\* the two most recent requests of the asset: a negative difference is a
\* backward jump, a velocity above 10 MB/s a forward scrub, above 1 MB/s
\* sequential, else slow forward, the time difference counted as 1 ms at
\* least; a first request is sequential; the window holds 5 requests at most
FasterThan(byte_delta, ticks, bytes_per_second) ==
    IF 1000 * ticks < TicksPerSecond
    THEN byte_delta > bytes_per_second \div 1000
    ELSE byte_delta * TicksPerSecond > bytes_per_second * ticks

Classified(h) ==
    IF Len(h) < 2 THEN "sequential"
    ELSE LET d == h[Len(h)].byte_end - h[Len(h) - 1].byte_end
             t == h[Len(h)].timestamp - h[Len(h) - 1].timestamp
         IN IF d < 0 THEN "backward"
            ELSE IF FasterThan(d, t, 10000000) THEN "forward_scrub"
            ELSE IF FasterThan(d, t, 1000000) THEN "sequential"
            ELSE "slow_forward"

C21_VelocityClassification ==
    /\ \A a \in AssetIds : Len(detectors[a]) <= 5
    /\ last.op = "on_chunk_access" => last.pattern = Classified(detectors[last.asset])

\* a sixth request of the asset was classified, a full second after the fifth,
\* at a velocity of exactly 10 MB/s: sequential
C21_Witness ==
    /\ last.op = "on_chunk_access"
    /\ LET h == detectors[last.asset]
       IN /\ Len(h) = 5
          /\ h[1].byte_end # 0
          /\ h[5].timestamp - h[4].timestamp = TicksPerSecond
          /\ h[5].byte_end - h[4].byte_end = 10000000
          /\ h[3].byte_end > h[2].byte_end
          /\ last.pattern = "sequential"

\* the other patterns: a backward jump, a scrub within the same millisecond, a
\* slow forward at exactly 1 MB/s
C21_WitnessBackward ==
    /\ last.op = "on_chunk_access" /\ last.pattern = "backward"
    /\ Len(detectors[last.asset]) = 3

C21_WitnessScrub ==
    /\ last.op = "on_chunk_access" /\ last.pattern = "forward_scrub"
    /\ LET h == detectors[last.asset]
       IN Len(h) >= 2 /\ h[Len(h)].timestamp = h[Len(h) - 1].timestamp
                     /\ h[Len(h)].byte_end - h[Len(h) - 1].byte_end = 1000000

C21_WitnessSlow ==
    /\ last.op = "on_chunk_access" /\ last.pattern = "slow_forward"
    /\ LET h == detectors[last.asset]
       IN Len(h) >= 2 /\ h[Len(h)].timestamp - h[Len(h) - 1].timestamp = TicksPerSecond
                     /\ h[Len(h)].byte_end - h[Len(h) - 1].byte_end = 1000000
\* C22: once abort_asset has set the flag of an asset and invalidated its
\* entries, no prefetch worker puts a decrypted chunk of that asset into the
\* decrypted cache
C22_NoWorkerPutAfterAbort ==
    [][\A w \in Workers :
          (workers[w].pc = "put" /\ workers'[w].pc # "put")
             => abort_flags[workers[w].task.asset_id] # "set"]_vars
\* C23: a prefetch task, short-range or long-range, that meets an error (a
\* chunk file that is missing or cannot be read, a decryption or integrity
\* failure) ends with abort_asset called for its asset
ChunkFilesMissing(dir, i) ==
    \/ dir = NoDir
    \/ i >= Len(dir.chunks)
    \/ None \in {dir.chunks[i + 1].enc, dir.chunks[i + 1].key, dir.chunks[i + 1].nonce}

\* the task is not answered by its cache and not stopped by the abort flag
TaskAttempted(task) ==
    /\ abort_flags[task.asset_id] # "set"
    /\ IF task.type = "short_range"
       THEN ~DecryptedChunkCache_get(dec_cache, task.asset_id, task.chunk_idx, clock).hit
       ELSE ~Has(enc_cache, <<task.asset_id, task.chunk_idx>>)

TaskError(task) ==
    \/ ChunkFilesMissing(disk[task.asset_id], task.chunk_idx)
    \/ /\ task.type = "short_range"
       /\ ~sdk_decrypt_chunk(users, disk[task.asset_id], task.chunk_idx, task.user_id,
                             task.pin, clock).ok

C23_TaskErrorsAbort ==
    [][\A w \in Workers :
          (/\ workers[w].pc = "run"
           /\ workers'[w].pc # "run"
           /\ TaskAttempted(workers[w].task)
           /\ TaskError(workers[w].task))
          => abort_flags'[workers[w].task.asset_id] = "set"]_vars
\* C24: an access at chunk c puts on the queue exactly one short-range task for
\* each index of [c+2, c+2+short_range_window) below total_chunks, and exactly
\* one long-range task for each index below total_chunks of the window of the
\* pattern: sequential [c+5, c+15), slow forward [c+10, c+20), forward scrub
\* [c+15, c+30), backward jump [max(c-15, 0), c)
ShortWindow(c, n) == {i \in (c + 2)..(c + 2 + ShortRangeWindow - 1) : i < n}

LongWindow(c, pattern, n) ==
    {i \in (CASE pattern = "sequential" -> (c + 5)..(c + 14)
             [] pattern = "slow_forward" -> (c + 10)..(c + 19)
             [] pattern = "forward_scrub" -> (c + 15)..(c + 29)
             [] pattern = "backward" -> Max(c - 15, 0)..(c - 1)) : i < n}

\* the tasks of one type in a sequence of tasks, as a bag of chunk indices
TaskCount(tasks, type, i) ==
    Cardinality({k \in DOMAIN tasks : tasks[k].type = type /\ tasks[k].chunk_idx = i})

Enqueued(before, after) == SubSeq(after, Len(before) + 1, Len(after))

C24_ScheduledWindows ==
    [][(last'.op = "on_chunk_access" /\ workers' = workers /\ Len(queue') >= Len(queue))
       => LET new == Enqueued(queue, queue')
              c == last'.index
              n == last'.total_chunks
          IN /\ SubSeq(queue', 1, Len(queue)) = queue
             /\ \A k \in DOMAIN new : /\ new[k].asset_id = last'.asset
                                      /\ new[k].chunk_idx \in 0..(c + 30)
             /\ \A i \in 0..(c + 30) :
                   /\ TaskCount(new, "short_range", i)
                        = IF i \in ShortWindow(c, n) THEN 1 ELSE 0
                   /\ TaskCount(new, "long_range", i)
                        = IF i \in LongWindow(c, last'.pattern, n) THEN 1 ELSE 0]_vars
\* C30: every task on the prefetch queue has a chunk index i with
\* 0 <= i < total_chunks, total_chunks being the chunk count api_stream_file
\* passes to on_chunk_access for the asset
C30_QueuedIndicesInRange ==
    \A k \in DOMAIN queue :
       /\ session_cache[queue[k].asset_id] # NoInfo
       /\ queue[k].chunk_idx >= 0
       /\ queue[k].chunk_idx < session_cache[queue[k].asset_id].chunk_count
\* C25: a worker that executes a long-range task decrypts nothing and leaves
\* the decrypted cache (and the abort flags) as they are; the encrypted cache
\* afterwards holds entries it held before and, at most, the task's chunk
\* with the triple of the chunk's files
LongRangeStep(w) ==
    /\ workers[w].pc = "run"
    /\ workers[w].task.type = "long_range"
    /\ workers'[w] # workers[w]

C25_LongRangeOnlyCachesEncrypted ==
    [][\A w \in Workers :
          LongRangeStep(w)
          => /\ workers'[w] = IdleWorker
             /\ dec_cache' = dec_cache
             /\ abort_flags' = abort_flags
             /\ \A k \in DOMAIN enc_cache' :
                   \/ \E j \in DOMAIN enc_cache : enc_cache'[k] = enc_cache[j]
                   \/ /\ enc_cache'[k].key
                           = <<workers[w].task.asset_id, workers[w].task.chunk_idx>>
                      /\ ~ChunkFilesMissing(disk[workers[w].task.asset_id],
                                            workers[w].task.chunk_idx)
                      /\ enc_cache'[k].data
                           = disk[workers[w].task.asset_id].chunks[
                                workers[w].task.chunk_idx + 1]]_vars

\* a long-range task has put chunk 0 (no short-range task fetches it) into the
\* encrypted cache while the decrypted cache held a chunk
C25_Witness ==
    /\ \E a \in AssetIds : Has(enc_cache, <<a, 0>>)
    /\ dec_cache # <<>>
    /\ \A w \in Workers : workers[w].pc = "idle"
\* C26: a prefetch task whose chunk its target cache already holds (the
\* decrypted cache for a short-range task, the entry not past its expiry; the
\* encrypted cache for a long-range task) decrypts nothing and puts nothing;
\* and a task executed twice in succession leaves both caches with the
\* entries one execution leaves
\* one execution of a task to its end: _prefetch_short_range or
\* _prefetch_long_range with the put or the abort_asset it ends with
task_done(task, dec, enc, flag_set, dir, now) ==
    LET r == prefetch_task(task, dec, enc, flag_set, dir, now)
    IN [outcome |-> r.outcome,
        dec |-> CASE r.outcome = "decrypted" ->
                       DecryptedChunkCache_put(r.dec, task.asset_id, task.chunk_idx, r.data,
                                               task.expiry_time, DecMaxSize)
                  [] r.outcome = "failed" -> Cache_invalidate(r.dec, task.asset_id)
                  [] OTHER -> r.dec,
        enc |-> r.enc,
        flag_set |-> flag_set \/ r.outcome = "failed"]

\* the tasks waiting on the queue or taken by a worker and not yet run
PendingTasks ==
    Range(queue) \cup {workers[w].task : w \in {v \in Workers : workers[v].pc = "run"}}

InTargetCache(task) ==
    LET key == <<task.asset_id, task.chunk_idx>>
    IN IF task.type = "short_range"
       THEN Has(dec_cache, key) /\ ~(clock > Entry(dec_cache, key).expiry_time)
       ELSE Has(enc_cache, key)

C26_TasksIdempotent ==
    \A task \in PendingTasks :
       LET flag == abort_flags[task.asset_id] = "set"
           dir == disk[task.asset_id]
           once == task_done(task, dec_cache, enc_cache, flag, dir, clock)
           twice == task_done(task, once.dec, once.enc, once.flag_set, dir, clock)
       IN /\ Range(twice.dec) = Range(once.dec)
          /\ Range(twice.enc) = Range(once.enc)
          /\ InTargetCache(task)
             => /\ once.outcome = "cached"
                /\ Range(once.dec) = Range(dec_cache)
                /\ Range(once.enc) = Range(enc_cache)

\* a worker is about to run a short-range task whose chunk another execution
\* of the same task has put into the decrypted cache
C26_Witness ==
    \E w \in Workers :
       /\ workers[w].pc = "run"
       /\ workers[w].task.type = "short_range"
       /\ InTargetCache(workers[w].task)

\* the same for a long-range task and the encrypted cache; and a task whose
\* first execution decrypts and puts
C26_WitnessLong ==
    \E w \in Workers :
       /\ workers[w].pc = "run"
       /\ workers[w].task.type = "long_range"
       /\ InTargetCache(workers[w].task)

C26_WitnessTwice ==
    \E w \in Workers :
       /\ workers[w].pc = "run"
       /\ ~InTargetCache(workers[w].task)
       /\ prefetch_task(workers[w].task, dec_cache, enc_cache, FALSE,
                        disk[workers[w].task.asset_id], clock).outcome = "decrypted"
\* C27: once shutdown has been signalled no worker begins to execute a task,
\* not even a task it dequeues afterwards
C27_NoTaskBeginsAfterShutdown ==
    [][shutdown_event
       => \A w \in Workers : ~(workers[w].pc # "run" /\ workers'[w].pc = "run")]_vars
\* C28: a task that a worker dequeues after the task's expiry_time, or while
\* the abort flag of its asset is set, is not executed: no worker starts to
\* run it, nothing is fetched into the encrypted cache and nothing inserted
\* into the decrypted cache; and for an expired task abort_asset has acted:
\* the flag of the asset is set and the decrypted cache holds none of its chunks
Dequeued == queue # <<>> /\ queue' = Tail(queue)

C28_ExpiredOrAbortedTaskDropped ==
    [][(/\ Dequeued
        /\ \/ clock > Head(queue).expiry_time
           \/ abort_flags[Head(queue).asset_id] = "set")
       => /\ \A w \in Workers : workers'[w].pc = "run" => workers'[w] = workers[w]
          /\ enc_cache' = enc_cache
          /\ Range(dec_cache') \subseteq Range(dec_cache)
          /\ clock > Head(queue).expiry_time
             => /\ abort_flags'[Head(queue).asset_id] = "set"
                /\ \A k \in DOMAIN dec_cache' :
                      dec_cache'[k].key[1] # Head(queue).asset_id]_vars
\* C29: a chunk count that load_asset or get_chunk_count reports is the
\* total_chunks of a manifest whose hash equals the manifest hash of the
\* asset's metadata, reported no later than the asset's expiry_at
C29_ChunkCountsAreVerified ==
    (last.op \in {"load_asset", "get_chunk_count"} /\ last.res.ok)
    => /\ last.dir # NoDir
       /\ verify_manifest_hash(last.dir.manifest.data,
                               sent[last.asset].metadata.manifest_hash)
       /\ last.now <= ExpiryTicks(last.asset)
       /\ (IF last.op = "load_asset" THEN last.res.val.chunk_count ELSE last.res.val)
            = last.dir.manifest.data.total_chunks
====
